---------------------------- MODULE Spec2Model ----------------------------
(***************************************************************************)
(* Verification model of the PNCP procurement search handlers              *)
(* (conectafornece/vercel).  The repository holds several variants of the  *)
(* same Vercel handler; the ones modelled here are                         *)
(*   - the cached aggregating handler      src/unnamed/part_007:1-465      *)
(*   - the hybrid handler with freshness   src/unnamed/part_007:467-873    *)
(*   - the hybrid handler (always refresh) src/api/search-bids.ts:231-579  *)
(*   - the hybrid handler (page-1 refresh) src/unnamed/part_015            *)
(* Each group of definitions names the variant and the lines it models.    *)
(***************************************************************************)
EXTENDS Integers, Sequences, FiniteSets, TLC

VARIABLES
  \* ---- pagination step (all handlers) --------------------------------
  pgHandler,      \* which handler's pagination code runs
  pgList,         \* the deduplicated, sorted result list (positions 1..n)
  pgPageNum,      \* parseInt(page, 10)
  pgPc,           \* "idle" | "req" | "done"
  pgData,         \* response field data
  pgTotalPages,   \* response field totalPages
  \* ---- sort step ------------------------------------------------------
  stHandler,      \* which handler's sort line runs
  stList,         \* the list handed to Array.prototype.sort
  stPc,           \* "idle" | "req" | "done"
  stOut,          \* the list after the sort
  \* ---- saveToSupabase against the table licitacoes --------------------
  sbHandler,      \* which handler's saveToSupabase runs
  sbTable,        \* the rows of the table licitacoes, in insertion order
  sbLast,         \* the last call: what was submitted, and the result
  \* ---- upstream aggregation over the modality codes -------------------
  agHandler,      \* "cached" (handler of part_007) | "searchInPNCP"
  agQuery,        \* [codes, keyword, stateSearch]: the request's parameters
  agPc,           \* "idle" | "first" | "pages" | "batches" | "done"
  agIdx,          \* index in codes of the modality being fetched
  agPage,         \* searchInPNCP: next page of that modality, and its last
  allBids,        \* the aggregated raw records
  totalAggregatedResults,
  successfulRequests,
  failedRequests,
  subsequentPagePromises,   \* queued {modalityCode, page}
  batchCounts,    \* [successes, failures] of the batched page fetches
  agErrorsLogged, \* console.error calls of searchInPNCP's catch
  agFetched,      \* history: modality code -> outcome of its page-1 fetch
  agReported,     \* history: modality code -> totalRegistros of page 1
  agReturned,     \* history: records the upstream returned successfully
  agResponse,     \* the response: [status, total, warning]
  \* ---- the hybrid handler with freshness (part_007:467-873) ----------
  hyLicitacoes,   \* the rows of the table licitacoes
  cache_buscas,   \* the row of cache_buscas for the query's cache key
  clock,          \* new Date(), in hours
  hyQuery,        \* [keyword, codes]: the query of every request
  hyPc,           \* "idle" | "fetch" | "save" | "respond" | "done"
  hyPageNum,      \* parseInt(page, 10) of the request being served
  supabaseResults,  \* ids of supabaseResults.data, in the store's order
  allResults,     \* the list the response is cut from
  precisaAtualizar, \* what needsRefresh returned to this request
  hyIdx,          \* index in maxModalidades of the modality being fetched
  pncpBids,       \* raw records collected from the upstream
  hyResponse,     \* the response: [status, data, total, totalPages]
  hyTrace,        \* history of this request: [readOk, fetches, wrote, saved]
  hyServed,       \* history: page -> what was served since the last write
  hyUpstream,     \* "listing" | "empty": whether the upstream has records
  hyRequestsLeft, \* requests the session still makes
  \* ---- needsRefresh and updateCacheRecord on one cache key -----------
  frRow,          \* the row of cache_buscas for the key
  frNow,          \* new Date(), in hours
  frChecks,       \* history: the last two needsRefresh calls
  \* ---- the row saveToSupabase of part_015 builds from a raw record --
  exBid,          \* the raw record's three date fields
  exHoje,         \* new Date(), as a calendar day
  exPc,           \* "idle" | "raw" | "done"
  exRow,          \* the formatted row, or that the callback threw
  \* ---- one call of fetchPageForModality / fetchWithRetry -----------
  fwPc,           \* "unused" | "idle" | "attempt" | "done"
  fwAttempt,      \* the loop variable attempt
  fwRequests,     \* history: the physical requests, each with its response
                  \* and the delay awaited since the one before
  fwSinceLast,    \* delay awaited since the last response
  fwResult,       \* what fetchWithRetry returned or threw
  \* ---- dispatch of the upstream requests of one query ---------------
  dpHandler,      \* "cached" | "part_014" | "part_017"
  dpCodes,        \* modalityCodes
  dpPc,           \* "idle" | "first" | "modalities" | "queued" | "pages"
                  \* | "batches" | "respond"
  dpIdx,          \* index of the modality awaited, then offset of the batch
  dpInFlight,     \* requests started and not yet settled
  dpQueue,        \* subsequentPagePromises
  \* ---- the caller's deadline for the query --------------------------
  dlExpired,      \* the deadline has passed
  \* ---- two requests with one cache key on one store -----------------
  ccTable,        \* the table licitacoes
  ccCache,        \* the row of cache_buscas for the key
  ccStart,        \* history: the table before the two requests
  ccUpstream,     \* the records the upstream lists
  ccPc,           \* request -> "idle" | "start" | "fetch" | "save"
                  \* | "record" | "respond" | "done"
  ccBids,         \* request -> pncpBids
  ccIdx,          \* request -> the loop variable i of saveToSupabase
  ccStatus,       \* request -> status of the response, 0 before it
  \* ---- the query: modality codes and cache key ----------------------
  rqHandler,      \* which handler reads the query
  rqQuery,        \* uf, city, keyword, modality of the request
  rqOther,        \* a second request to the hybrid handler
  rqKeys,         \* the cache keys of the two requests, <<>> before
  rqCodes,        \* the codes passed to fetchPageForModality
  rqPc,           \* start, keyed, selected
  \* ---- the page walk of part_015 ------------------------------------
  wkPc,           \* page, done
  wkIdx,          \* position of the modality in ALL_MODALITY_CODES
  wkPage,         \* page of fetchAllPagesForModality
  wkAllData,      \* allData of fetchAllPagesForModality
  wkAllBids,      \* allBids of searchInPNCP
  wkRequested,    \* pages requested for the current modality
  wkReported,     \* what each of them returned
  wkFetched,      \* every record a page returned, in order
  \* ---- saveToSupabase, request by request ---------------------------
  svHandler,      \* whose saveToSupabase runs
  svLength,       \* licitacoes.length
  svI,            \* the loop variable i
  svSaved,        \* saved, or the number returned
  svErrors,       \* errors
  svWrites,       \* the writes sent: rows carried, accepted or not
  svPc,           \* loop, returned
  \* ---- the in-memory result cache of the cached handler -------------
  mcCache,        \* the Map, in insertion order: [key, data, timestamp]
  mcNow,          \* Date.now(), in minutes
  mcALL,          \* the array ALL_MODALITY_CODES as it is now
  mcPc,           \* idle, compute
  mcReq,          \* the request in progress: page, key, modality list
  mcCodes,        \* its modalityCodes array after getCacheKey
  mcLast,         \* history: the last lookup and its answer
  mcAnswered,     \* history: key -> response of the miss that stored it
  mcRequestsLeft, \* requests still to come
  \* ---- the page parameter -------------------------------------------
  ppHandler,      \* whose slice runs
  ppPage,         \* the query parameter page, a string
  ppList,         \* the result list
  ppData,         \* the items of the response
  ppPc,           \* req, done
  \* ---- the handler of part_015 --------------------------------------
  p1PageNum,      \* pageNum
  p1Stored,       \* matching records in licitacoes
  p1Results,      \* supabaseResults.length
  p1FirstRead,    \* history: what the first read returned
  p1Consulted,    \* history: searchInPNCP was called
  p1Wrote,        \* history: saveToSupabase was called
  p1Source,       \* the response's source field
  p1Pc,           \* read, refresh, respond, done
  \* ---- the handler of part_010 --------------------------------------
  kfCity,         \* req.query.city
  kfKeyword,      \* req.query.keyword
  kfAggregate,    \* allBids, totalAggregatedResults, maxTotalPages
  kfEvaluated,    \* history: allBids.filter was called
  kfResponse,     \* the response
  kfPc,           \* fetch, filter, done
  \* ---- the two-stage handler of part_009 ----------------------------
  tsInitial,      \* initialResults
  tsSubsequent,   \* the requests behind subsequentPagePromises
  tsAllBids,      \* allBids: <<modality code, page>> of each record
  tsResponse,     \* the response
  tsPc            \* stage1, stage2, respond, done

pgVars == <<pgHandler, pgList, pgPageNum, pgPc, pgData, pgTotalPages>>
stVars == <<stHandler, stList, stPc, stOut>>
sbVars == <<sbHandler, sbTable, sbLast>>
agVars == <<agHandler, agQuery, agPc, agIdx, agPage, allBids,
            totalAggregatedResults, successfulRequests, failedRequests,
            subsequentPagePromises, batchCounts, agErrorsLogged, agFetched,
            agReported, agReturned, agResponse>>

hyVars == <<hyLicitacoes, cache_buscas, clock, hyQuery, hyPc, hyPageNum,
            supabaseResults, allResults, precisaAtualizar, hyIdx, pncpBids,
            hyResponse, hyTrace, hyServed, hyUpstream, hyRequestsLeft>>
frVars == <<frRow, frNow, frChecks>>
exVars == <<exBid, exHoje, exPc, exRow>>
dpVars == <<dpHandler, dpCodes, dpPc, dpIdx, dpInFlight, dpQueue>>
fwVars == <<fwPc, fwAttempt, fwRequests, fwSinceLast, fwResult>>
ccVars == <<ccTable, ccCache, ccStart, ccUpstream, ccPc, ccBids, ccIdx, ccStatus>>
dlVars == <<dlExpired>>
wkVars == <<wkPc, wkIdx, wkPage, wkAllData, wkAllBids, wkRequested, wkReported, wkFetched>>
rqVars == <<rqHandler, rqQuery, rqOther, rqKeys, rqCodes, rqPc>>
mcVars == <<mcCache, mcNow, mcALL, mcPc, mcReq, mcCodes, mcLast, mcAnswered, mcRequestsLeft>>
svVars == <<svHandler, svLength, svI, svSaved, svErrors, svWrites, svPc>>
p1Vars == <<p1PageNum, p1Stored, p1Results, p1FirstRead, p1Consulted, p1Wrote, p1Source, p1Pc>>
ppVars == <<ppHandler, ppPage, ppList, ppData, ppPc>>
tsVars == <<tsInitial, tsSubsequent, tsAllBids, tsResponse, tsPc>>
kfVars == <<kfCity, kfKeyword, kfAggregate, kfEvaluated, kfResponse, kfPc>>

vars == <<pgVars, stVars, sbVars, agVars, hyVars, frVars, exVars, fwVars,
         dpVars,
         dlVars,
         ccVars,
         rqVars,
         wkVars,
         svVars,
         mcVars,
         ppVars,
         p1Vars,
         kfVars,
         tsVars>>

-----------------------------------------------------------------------------
(* Bounds of the model *)

\* longest result list handed to the pagination step
MaxRecords == 26
\* largest page number requested
MaxPage == 4
\* longest list handed to the sort step, and the latest publication day
MaxSortLen == 3
MaxDate == 3
\* saveToSupabase: distinct identifiers, records per call
MaxIds == 2
MaxPayload == 2
\* aggregation: modality codes per request, totalPaginas the upstream reports
MaxModalities == 3
MaxTotalPaginas == 2
\* hybrid handler: rows stored at the start, modality codes of the query,
\* largest page requested, the hour of the request, requests of a session
MaxStored == 12
MaxCodes == 2
MaxPageNum == 2
MaxClock == 7
MaxRequests == 2
\* needsRefresh: the last hour of the clock
MaxNow == 7
\* dispatch: modality codes of a query, and pages a modality reports
MaxDispatchCodes == 6
MaxDispatchPages == 10
\* records of the upstream's listing
MaxUpstream == 2
\* modalities walked, and the largest totalPaginas a page reports
MaxWalkCodes == 2
MaxWalkTotal == 11
\* full batches in the largest payload of saveToSupabase
MaxSaveBatches == 3
\* the clock of the in-memory cache, in minutes, and the requests to it
MaxCacheNow == 10
MaxCacheRequests == 2
\* records searchInPNCP of part_015 collects
MaxCollected == 2
\* the largest totalPaginas of the two-stage handler
MaxTwoStageTotal == 7

-----------------------------------------------------------------------------
(* JavaScript helpers *)

Min(a, b) == IF a < b THEN a ELSE b
Max(a, b) == IF a > b THEN a ELSE b

Range(s) == {s[i] : i \in 1..Len(s)}

\* Math.ceil(a / b) for a >= 0, b > 0
MathCeilDiv(a, b) == (a + b - 1) \div b

\* Array.prototype.slice(start, end): a negative index counts from the end,
\* both ends are clamped to [0, length]
JsSlice(s, start, end) ==
  LET len  == Len(s)
      from == IF start < 0 THEN Max(len + start, 0) ELSE Min(start, len)
      to   == IF end < 0 THEN Max(len + end, 0) ELSE Min(end, len)
  IN  SubSeq(s, from + 1, to)

\* x || 1 on a number: 0 is falsy
OrOne(x) == IF x = 0 THEN 1 ELSE x

-----------------------------------------------------------------------------
(* Pagination: the last step of every handler *)

itemsPerPage == 10

\* the hybrid handlers: startIndex = (pageNum - 1) * itemsPerPage,
\* slice(startIndex, startIndex + itemsPerPage)
PaginateHybrid_SliceFromPage(list, pageNum) ==
  JsSlice(list, pageNum * itemsPerPage, pageNum * itemsPerPage + itemsPerPage)

PaginateHybrid(list, pageNum) ==
  LET startIndex == (pageNum - 1) * itemsPerPage
  IN  JsSlice(list, startIndex, startIndex + itemsPerPage)

TotalPagesHybrid(list) == MathCeilDiv(Len(list), itemsPerPage)

\* the cached handler: slice((finalPage - 1) * 10, finalPage * 10) and
\* Math.ceil(length / 10) || 1
PaginateCached(list, finalPage) ==
  JsSlice(list, (finalPage - 1) * itemsPerPage, finalPage * itemsPerPage)

TotalPagesCached(list) == OrOne(MathCeilDiv(Len(list), itemsPerPage))

PgHandlers == {"hybrid", "cached"}

InitPage ==
  /\ pgHandler \in PgHandlers
  /\ \E n \in 0..MaxRecords : pgList = [i \in 1..n |-> i]
  /\ pgPageNum \in 1..MaxPage
  /\ pgPc = "req"
  /\ pgData = <<>>
  /\ pgTotalPages = 0

IdlePage ==
  /\ pgHandler = "hybrid"
  /\ pgList = <<>>
  /\ pgPageNum = 1
  /\ pgPc = "idle"
  /\ pgData = <<>>
  /\ pgTotalPages = 0

RespondHybridPage ==
  /\ pgPc = "req"
  /\ pgHandler = "hybrid"
  /\ pgData' = PaginateHybrid(pgList, pgPageNum)
  /\ pgTotalPages' = TotalPagesHybrid(pgList)
  /\ pgPc' = "done"
  /\ UNCHANGED <<pgHandler, pgList, pgPageNum>>
  /\ UNCHANGED <<stVars, sbVars, agVars, hyVars, frVars, exVars, fwVars, dpVars, dlVars, ccVars, rqVars, wkVars, svVars, mcVars, ppVars, p1Vars, kfVars, tsVars>>

RespondCachedPage ==
  /\ pgPc = "req"
  /\ pgHandler = "cached"
  /\ pgData' = PaginateCached(pgList, pgPageNum)
  /\ pgTotalPages' = TotalPagesCached(pgList)
  /\ pgPc' = "done"
  /\ UNCHANGED <<pgHandler, pgList, pgPageNum>>
  /\ UNCHANGED <<stVars, sbVars, agVars, hyVars, frVars, exVars, fwVars, dpVars, dlVars, ccVars, rqVars, wkVars, svVars, mcVars, ppVars, p1Vars, kfVars, tsVars>>

NextPage == RespondHybridPage \/ RespondCachedPage

-----------------------------------------------------------------------------
(* Sort by publication date:                                               *)
(*   list.sort((a, b) => new Date(b.d).getTime() - new Date(a.d).getTime()) *)

\* A publication date field: absent (undefined), null, or a day (1, 2, ...)
Absent == [kind |-> "absent", t |-> 0]
Null == [kind |-> "null", t |-> 0]
DateOn(t) == [kind |-> "date", t |-> t]
IsMissing(d) == d.kind # "date"

\* new Date(d).getTime(): NaN for undefined, 0 (the epoch) for null
NaN == [nan |-> TRUE, v |-> 0]
Num(v) == [nan |-> FALSE, v |-> v]
GetTime(d) ==
  IF d.kind = "absent" THEN NaN
  ELSE IF d.kind = "null" THEN Num(0)
  ELSE Num(d.t)

\* the comparator's value, with SortCompare's rule that NaN counts as +0
ByDateDesc(a, b) ==
  LET ta == GetTime(a)
      tb == GetTime(b)
  IN  IF ta.nan \/ tb.nan THEN 0 ELSE tb.v - ta.v

\* mapBidData(item, 'Supabase').data_publicacao of search-bids.ts:
\*   item.data_publicacao || item.dataPublicacaoPncp
\* a stored row has no top-level dataPublicacaoPncp, so null becomes undefined
MapBidDataDate(d) == IF d.kind = "date" THEN d ELSE Absent

\* the date the comparator reads from an element of the list
SortKey(handler, rec) ==
  IF handler = "searchBids" THEN MapBidDataDate(rec.d) ELSE rec.d

Cmp(handler, a, b) == ByDateDesc(SortKey(handler, a), SortKey(handler, b))

Reverse(s) == [i \in 1..Len(s) |-> s[Len(s) + 1 - i]]

\* V8's Array.prototype.sort on a short array (under 64 elements, one run):
\* CountAndMakeRun takes the longest prefix that is a run (strictly
\* descending, then reversed, or else non-descending) ...
RECURSIVE V8RunEnd(_, _, _, _)
V8RunEnd(handler, list, isDescending, idx) ==
  IF idx > Len(list) THEN Len(list)
  ELSE LET order == Cmp(handler, list[idx], list[idx - 1])
       IN  IF (isDescending /\ order >= 0) \/ (~isDescending /\ order < 0)
           THEN idx - 1
           ELSE V8RunEnd(handler, list, isDescending, idx + 1)

\* ... and BinaryInsertionSort inserts every later element into it
RECURSIVE V8BinarySearch(_, _, _, _, _)
V8BinarySearch(handler, sorted, pivot, left, right) ==
  IF left >= right THEN left
  ELSE LET mid == left + ((right - left) \div 2)
       IN  IF Cmp(handler, pivot, sorted[mid + 1]) < 0
           THEN V8BinarySearch(handler, sorted, pivot, left, mid)
           ELSE V8BinarySearch(handler, sorted, pivot, mid + 1, right)

RECURSIVE V8InsertFrom(_, _, _)
V8InsertFrom(handler, sorted, rest) ==
  IF rest = <<>> THEN sorted
  ELSE LET pivot == Head(rest)
           at == V8BinarySearch(handler, sorted, pivot, 0, Len(sorted))
       IN  V8InsertFrom(handler,
                        SubSeq(sorted, 1, at) \o <<pivot>>
                          \o SubSeq(sorted, at + 1, Len(sorted)),
                        Tail(rest))

V8Sort(handler, list) ==
  IF Len(list) < 2 THEN list
  ELSE LET isDescending == Cmp(handler, list[2], list[1]) < 0
           runEnd == V8RunEnd(handler, list, isDescending, 3)
           run == IF isDescending THEN Reverse(SubSeq(list, 1, runEnd))
                  ELSE SubSeq(list, 1, runEnd)
       IN  V8InsertFrom(handler, run, SubSeq(list, runEnd + 1, Len(list)))

\* what list.sort(comparator) leaves in the array under Node.js
SortByDateDesc(handler, list) == V8Sort(handler, list)

SortHandlers == {"cached", "searchBids"}

DateVals == {Absent, Null} \cup {DateOn(t) : t \in 1..MaxDate}
StoredDateVals == {Null} \cup {DateOn(t) : t \in 1..MaxDate}

\* the store's order=data_publicacao.desc.nullslast
StoreOrdered(list) ==
  \A i \in 1..Len(list), j \in 1..Len(list) :
    i < j => \/ IsMissing(list[j].d)
             \/ (~IsMissing(list[i].d) /\ list[i].d.t >= list[j].d.t)

SortInputs(handler) ==
  LET Lists(vals) ==
        UNION {{[i \in 1..n |-> [pos |-> i, d |-> f[i]]] :
                  f \in [1..n -> vals]} : n \in 0..MaxSortLen}
  IN  IF handler = "cached" THEN Lists(DateVals)
      ELSE {l \in Lists(StoredDateVals) : StoreOrdered(l)}

InitSort ==
  /\ stHandler \in SortHandlers
  /\ stList \in SortInputs(stHandler)
  /\ stPc = "req"
  /\ stOut = <<>>

IdleSort ==
  /\ stHandler = "cached"
  /\ stList = <<>>
  /\ stPc = "idle"
  /\ stOut = <<>>

SortByDate ==
  /\ stPc = "req"
  /\ stOut' = SortByDateDesc(stHandler, stList)
  /\ stPc' = "done"
  /\ UNCHANGED <<stHandler, stList>>
  /\ UNCHANGED <<pgVars, sbVars, agVars, hyVars, frVars, exVars, fwVars, dpVars, dlVars, ccVars, rqVars, wkVars, svVars, mcVars, ppVars, p1Vars, kfVars, tsVars>>

NextSort == SortByDate

-----------------------------------------------------------------------------
(* saveToSupabase: the write of fetched records to the table licitacoes    *)

\* A raw upstream record carries its identifier (numeroControlePNCP, or id
\* in part_007) and mutable fields, of which situacaoCompraNome stands here
Situacoes == {"Divulgada", "Encerrada"}
RawRecords == [id : 1..MaxIds, situacao : Situacoes]

\* licitacoes.map(bid => ({ id_pncp: ..., titulo: ..., status: ... }))
FormatRow(bid) == [id_pncp |-> bid.id, status |-> bid.situacao]
FormatRows(licitacoes) == [i \in 1..Len(licitacoes) |-> FormatRow(licitacoes[i])]

StoredIds(table) == {table[i].id_pncp : i \in 1..Len(table)}

HasRepeatedKey(rows) ==
  \E i \in 1..Len(rows), j \in 1..Len(rows) :
    i # j /\ rows[i].id_pncp = rows[j].id_pncp

\* The store's answer to one upsert of rows keyed by id_pncp.
\*   merge-duplicates:  INSERT .. ON CONFLICT DO UPDATE; a payload that names
\*                      one key twice is rejected as a whole
\*   ignore-duplicates: INSERT .. ON CONFLICT DO NOTHING
\*   none:              a plain INSERT
RECURSIVE InsertRows(_, _, _)
InsertRows(table, rows, resolution) ==
  IF rows = <<>> THEN table
  ELSE LET row == Head(rows)
           hit == {i \in 1..Len(table) : table[i].id_pncp = row.id_pncp}
           next ==
             IF hit = {} \/ resolution = "none" THEN Append(table, row)
             ELSE IF resolution = "merge-duplicates"
                  THEN [i \in 1..Len(table) |->
                          IF i \in hit THEN row ELSE table[i]]
                  ELSE table
       IN  InsertRows(next, Tail(rows), resolution)

StoreUpsert_PlainInsert(table, rows, resolution, storeUp) ==
  IF ~storeUp THEN [ok |-> FALSE, table |-> table]
  ELSE [ok |-> TRUE, table |-> table \o rows]

StoreUpsert(table, rows, resolution, storeUp) ==
  IF ~storeUp \/ (resolution = "merge-duplicates" /\ HasRepeatedKey(rows))
  THEN [ok |-> FALSE, table |-> table]
  ELSE [ok |-> TRUE, table |-> InsertRows(table, rows, resolution)]

\* search-bids.ts: one POST with Prefer: resolution=merge-duplicates
SaveToSupabase_searchBids_PlainInsert(table, licitacoes, storeUp) ==
  IF licitacoes = <<>> THEN [table |-> table, saved |-> 0, errors |-> 0]
  ELSE LET r == StoreUpsert(table, FormatRows(licitacoes), "none", storeUp)
       IN  [table |-> r.table,
            saved |-> IF r.ok THEN Len(licitacoes) ELSE 0,
            errors |-> 0]

SaveToSupabase_searchBids(table, licitacoes, storeUp) ==
  IF licitacoes = <<>> THEN [table |-> table, saved |-> 0, errors |-> 0]
  ELSE LET r == StoreUpsert(table, FormatRows(licitacoes),
                            "merge-duplicates", storeUp)
       IN  [table |-> r.table,
            saved |-> IF r.ok THEN Len(licitacoes) ELSE 0,
            errors |-> 0]

\* part_015: one POST with Prefer: resolution=ignore-duplicates
SaveToSupabase_part015(table, licitacoes, storeUp) ==
  IF licitacoes = <<>> THEN [table |-> table, saved |-> 0, errors |-> 0]
  ELSE LET r == StoreUpsert(table, FormatRows(licitacoes),
                            "ignore-duplicates", storeUp)
       IN  [table |-> r.table,
            saved |-> IF r.ok THEN Len(licitacoes) ELSE 0,
            errors |-> 0]

\* part_007 (hybrid handler): batches of 50 through
\* upsert(batch, { onConflict: 'id_pncp', ignoreDuplicates: true });
\* storeUp is the store's state at each batch (TRUE from the last entry on)
batchSize == 50

RECURSIVE SaveBatches(_, _, _, _)
SaveBatches(acc, rows, i, storeUp) ==
  IF i >= Len(rows) THEN acc
  ELSE LET batch == JsSlice(rows, i, i + batchSize)
           n == (i \div batchSize) + 1
           up == IF n <= Len(storeUp) THEN storeUp[n] ELSE TRUE
           r == StoreUpsert(acc.table, batch, "ignore-duplicates", up)
       IN  SaveBatches([table |-> r.table,
                        saved |-> IF r.ok THEN acc.saved + Len(batch)
                                  ELSE acc.saved,
                        errors |-> IF r.ok THEN acc.errors
                                   ELSE acc.errors + Len(batch)],
                       rows, i + batchSize, storeUp)

SaveToSupabase_hybrid(table, licitacoes, storeUp) ==
  IF licitacoes = <<>> THEN [table |-> table, saved |-> 0, errors |-> 0]
  ELSE SaveBatches([table |-> table, saved |-> 0, errors |-> 0],
                   FormatRows(licitacoes), 0, storeUp)

SaveHandlers == {"searchBids", "part015", "hybrid"}

Payloads ==
  UNION {[1..n -> RawRecords] : n \in 0..MaxPayload}

\* sbLast: the payload named a key twice (repeated); every key of the
\* payload was already stored (known); rows before; the call's result
NoCall == [called |-> FALSE, repeated |-> FALSE, known |-> FALSE,
           rowsBefore |-> 0, saved |-> 0, errors |-> 0]

InitStore ==
  /\ sbHandler \in SaveHandlers
  /\ sbTable = <<>>
  /\ sbLast = NoCall

IdleStore ==
  /\ sbHandler = "searchBids"
  /\ sbTable = <<>>
  /\ sbLast = NoCall

SaveCall(licitacoes, r) ==
  /\ sbTable' = r.table
  /\ sbLast' = [called |-> TRUE,
                repeated |-> HasRepeatedKey(FormatRows(licitacoes)),
                known |-> /\ licitacoes # <<>>
                          /\ \A bid \in Range(licitacoes) :
                                bid.id \in StoredIds(sbTable),
                rowsBefore |-> Len(sbTable),
                saved |-> r.saved, errors |-> r.errors]
  /\ UNCHANGED sbHandler
  /\ UNCHANGED <<pgVars, stVars, agVars, hyVars, frVars, exVars, fwVars, dpVars, dlVars, ccVars, rqVars, wkVars, svVars, mcVars, ppVars, p1Vars, kfVars, tsVars>>

SaveSearchBids ==
  /\ sbHandler = "searchBids"
  /\ \E licitacoes \in Payloads, storeUp \in BOOLEAN :
       SaveCall(licitacoes,
                SaveToSupabase_searchBids(sbTable, licitacoes, storeUp))

SavePart015 ==
  /\ sbHandler = "part015"
  /\ \E licitacoes \in Payloads, storeUp \in BOOLEAN :
       SaveCall(licitacoes,
                SaveToSupabase_part015(sbTable, licitacoes, storeUp))

SaveHybrid ==
  /\ sbHandler = "hybrid"
  /\ \E licitacoes \in Payloads, storeUp \in BOOLEAN :
       SaveCall(licitacoes,
                SaveToSupabase_hybrid(sbTable, licitacoes, <<storeUp>>))

NextStore == SaveSearchBids \/ SavePart015 \/ SaveHybrid


-----------------------------------------------------------------------------
(* The upstream aggregation: one fetch of page 1 per modality code, then   *)
(* the further pages.  fetchPageForModality returns what fetchWithRetry    *)
(* returns: the parsed body, null after the retries, or it throws.         *)

ALL_MODALITY_CODES ==
  <<"1", "2", "3", "4", "5", "6", "7", "8", "9", "12", "13">>
MAX_PAGES_TO_FETCH == 50

\* the record the upstream lists for a modality code on a page
Bid(code, page) == [modality |-> code, page |-> page]

Answer(hasData, data, totalRegistros, totalPaginas) ==
  [kind |-> "ok", hasData |-> hasData, data |-> data,
   totalRegistros |-> totalRegistros, totalPaginas |-> totalPaginas]
ReturnsNull == [kind |-> "null", hasData |-> FALSE, data |-> <<>>,
                totalRegistros |-> 0, totalPaginas |-> 0]
Throws == [kind |-> "throw", hasData |-> FALSE, data |-> <<>>,
           totalRegistros |-> 0, totalPaginas |-> 0]
\* an answer without records: { data: [], totalRegistros: 0, totalPaginas: 0 }
NoContent == Answer(TRUE, <<>>, 0, 0)
\* a JSON body without a data field
NoDataField == Answer(FALSE, <<>>, 0, 0)

FirstPageOutcomes(code) ==
  {ReturnsNull, Throws, NoContent, NoDataField}
    \cup {Answer(TRUE, <<Bid(code, 1)>>, tp, tp) : tp \in 1..MaxTotalPaginas}

LaterPageOutcomes(code, page) ==
  {ReturnsNull, Throws, Answer(TRUE, <<Bid(code, page)>>, 0, 0)}

\* data.data || []
DataOrEmpty(ans) == IF ans.hasData THEN ans.data ELSE <<>>

\* ---- the cached handler of part_007: first pages, lines 248-296 --------

\* the pages 2..pagesToFetch queued for a modality whose page 1 reported
\* totalPages
MaxPagesCached(totalPages, keyword, stateSearch) ==
  IF stateSearch
  THEN IF keyword THEN Min(totalPages, 100) ELSE Min(totalPages, 5)
  ELSE MAX_PAGES_TO_FETCH

QueuedPages(code, totalPages, keyword, stateSearch) ==
  IF totalPages > 1
  THEN LET pagesToFetch ==
             Min(totalPages, MaxPagesCached(totalPages, keyword, stateSearch))
       IN  [i \in 1..(pagesToFetch - 1) |->
              [modalityCode |-> code, page |-> i + 1]]
  ELSE <<>>

\* failedRequests after a first-page fetch
CountFailure(failed, out) ==
  IF out.kind = "ok" THEN failed ELSE failed + 1

AddTotalRegistros_CountRecords(total, out) ==
  IF out.kind = "ok" THEN total + Len(DataOrEmpty(out)) ELSE total

\* if (data) { ... totalAggregatedResults += data.totalRegistros || 0 ... };
\* a totalRegistros of 0 stands for 0, null and a missing field
AddTotalRegistros(total, out) ==
  IF out.kind = "ok" THEN total + out.totalRegistros ELSE total

AfterLoop(queue) == IF queue = <<>> THEN "respond" ELSE "batches"

FirstPageCached ==
  /\ agHandler = "cached"
  /\ agPc = "first"
  /\ LET code == agQuery.codes[agIdx]
     IN  \E out \in FirstPageOutcomes(code) :
           LET queue == IF out.kind = "ok"
                        THEN subsequentPagePromises
                               \o QueuedPages(code, out.totalPaginas,
                                              agQuery.keyword,
                                              agQuery.stateSearch)
                        ELSE subsequentPagePromises
           IN  /\ allBids' = IF out.kind = "ok"
                             THEN allBids \o DataOrEmpty(out) ELSE allBids
               /\ totalAggregatedResults' =
                    AddTotalRegistros(totalAggregatedResults, out)
               /\ successfulRequests' =
                    IF out.kind = "ok" THEN successfulRequests + 1
                    ELSE successfulRequests
               /\ failedRequests' = CountFailure(failedRequests, out)
               /\ subsequentPagePromises' = queue
               /\ agFetched' = [agFetched EXCEPT ![code] = out.kind]
               /\ agReported' = [agReported EXCEPT
                                  ![code] = out.totalRegistros]
               /\ agReturned' = agReturned \cup Range(DataOrEmpty(out))
               /\ IF agIdx < Len(agQuery.codes)
                  THEN agIdx' = agIdx + 1 /\ agPc' = "first"
                  ELSE agIdx' = 0 /\ agPc' = AfterLoop(queue)
  /\ UNCHANGED <<agHandler, agQuery, agPage, batchCounts, agErrorsLogged,
                 agResponse>>
  /\ UNCHANGED <<pgVars, stVars, sbVars, hyVars, frVars, exVars, fwVars, dpVars, dlVars, ccVars, rqVars, wkVars, svVars, mcVars, ppVars, p1Vars, kfVars, tsVars>>

\* ---- the cached handler: the queued pages in batches, lines 300-353 ----

BatchSize(queue) == IF Len(queue) > 50 THEN 5 ELSE 3

\* result.success of one page fetch: result && result.data
\* a JSON body whose data is truthy but not an array: { "data": {} }
NotIterable == [kind |-> "not iterable", hasData |-> TRUE, data |-> <<>>,
                totalRegistros |-> 0, totalPaginas |-> 0]

BatchPageOutcomes(code, page) ==
  LaterPageOutcomes(code, page) \cup {NotIterable}

\* if (result && result.data)
PageSucceeded(out) == out.kind \in {"ok", "not iterable"} /\ out.hasData

\* the results of the batch that the merge loop reaches: spreading a value
\* that is not iterable throws out of the loop
Merged(outs) ==
  IF \E k \in 1..Len(outs) : outs[k] = NotIterable
  THEN SubSeq(outs, 1, (CHOOSE k \in 1..Len(outs) :
                          /\ outs[k] = NotIterable
                          /\ \A j \in 1..(k - 1) : outs[j] # NotIterable) - 1)
  ELSE outs

RECURSIVE PushBatch(_, _)
PushBatch(bids, outs) ==
  IF outs = <<>> THEN bids
  ELSE PushBatch(IF PageSucceeded(Head(outs)) THEN bids \o Head(outs).data
                 ELSE bids,
                 Tail(outs))

\* agIdx is the loop variable i: the offset of the batch in the queue
BatchCached ==
  /\ agHandler = "cached"
  /\ agPc = "batches"
  /\ LET size == BatchSize(subsequentPagePromises)
         batch == JsSlice(subsequentPagePromises, agIdx, agIdx + size)
         Outs == {outs \in [1..Len(batch) -> UNION {BatchPageOutcomes(
                                batch[k].modalityCode, batch[k].page)
                                               : k \in 1..Len(batch)}] :
                    \A k \in 1..Len(batch) :
                      outs[k] \in BatchPageOutcomes(batch[k].modalityCode,
                                                    batch[k].page)}
     IN  \E outs \in Outs :
           LET merged == Merged(outs)
               ok == {k \in 1..Len(merged) : PageSucceeded(merged[k])}
           IN  /\ allBids' = PushBatch(allBids, merged)
               /\ batchCounts' =
                    [successes |-> batchCounts.successes + Cardinality(ok),
                     failures |-> batchCounts.failures
                                    + (Len(merged) - Cardinality(ok))]
               /\ agReturned' =
                    agReturned \cup UNION {Range(outs[k].data) :
                                             k \in 1..Len(outs)}
               /\ IF merged # outs
                  THEN \* the TypeError reaches the handler's catch
                       /\ agIdx' = agIdx
                       /\ agPc' = "done"
                       /\ agResponse' = [status |-> 500, total |-> 0,
                                         warning |-> FALSE]
                  ELSE /\ UNCHANGED agResponse
                       /\ IF agIdx + size < Len(subsequentPagePromises)
                          THEN agIdx' = agIdx + size /\ agPc' = "batches"
                          ELSE agIdx' = 0 /\ agPc' = "respond"
  /\ UNCHANGED <<agHandler, agQuery, agPage, totalAggregatedResults,
                 successfulRequests, failedRequests, subsequentPagePromises,
                 agErrorsLogged, agFetched, agReported>>
  /\ UNCHANGED <<pgVars, stVars, sbVars, hyVars, frVars, exVars, fwVars, dpVars, dlVars, ccVars, rqVars, wkVars, svVars, mcVars, ppVars, p1Vars, kfVars, tsVars>>

\* ---- the cached handler: the response, lines 417-449 -------------------

RespondCached ==
  /\ agHandler = "cached"
  /\ agPc = "respond"
  /\ agResponse' = [status |-> 200, total |-> totalAggregatedResults,
                    warning |-> agQuery.stateSearch]
  /\ agPc' = "done"
  /\ UNCHANGED <<agHandler, agQuery, agIdx, agPage, allBids,
                 totalAggregatedResults, successfulRequests, failedRequests,
                 subsequentPagePromises, batchCounts, agErrorsLogged,
                 agFetched, agReported, agReturned>>
  /\ UNCHANGED <<pgVars, stVars, sbVars, hyVars, frVars, exVars, fwVars, dpVars, dlVars, ccVars, rqVars, wkVars, svVars, mcVars, ppVars, p1Vars, kfVars, tsVars>>

\* ---- searchInPNCP of search-bids.ts, lines 464-491 ---------------------

NextModalityPNCP ==
  IF agIdx < Len(agQuery.codes)
  THEN agIdx' = agIdx + 1 /\ agPc' = "first"
  ELSE agIdx' = 0 /\ agPc' = "respond"

FirstPagePNCP ==
  /\ agHandler = "searchInPNCP"
  /\ agPc = "first"
  /\ LET code == agQuery.codes[agIdx]
     IN  \E out \in FirstPageOutcomes(code) :
           LET kept == out.kind = "ok" /\ out.hasData
               maxPages == Min(out.totalPaginas, 10)
           IN  /\ allBids' = IF kept THEN allBids \o out.data ELSE allBids
               /\ agErrorsLogged' = IF out.kind = "throw"
                                    THEN agErrorsLogged + 1
                                    ELSE agErrorsLogged
               /\ agFetched' = [agFetched EXCEPT ![code] = out.kind]
               /\ agReported' = [agReported EXCEPT
                                  ![code] = out.totalRegistros]
               /\ agReturned' = agReturned \cup Range(DataOrEmpty(out))
               /\ IF kept /\ agQuery.keyword /\ out.totalPaginas > 1
                  THEN /\ agPage' = [next |-> 2, last |-> maxPages]
                       /\ agPc' = "pages"
                       /\ agIdx' = agIdx
                  ELSE /\ agPage' = agPage
                       /\ NextModalityPNCP
  /\ UNCHANGED <<agHandler, agQuery, totalAggregatedResults,
                 successfulRequests, failedRequests, subsequentPagePromises,
                 batchCounts, agResponse>>
  /\ UNCHANGED <<pgVars, stVars, sbVars, hyVars, frVars, exVars, fwVars, dpVars, dlVars, ccVars, rqVars, wkVars, svVars, mcVars, ppVars, p1Vars, kfVars, tsVars>>

LaterPagePNCP ==
  /\ agHandler = "searchInPNCP"
  /\ agPc = "pages"
  /\ LET code == agQuery.codes[agIdx]
     IN  \E out \in LaterPageOutcomes(code, agPage.next) :
           /\ allBids' = IF PageSucceeded(out) THEN allBids \o out.data
                         ELSE allBids
           /\ agErrorsLogged' = IF out.kind = "throw"
                                THEN agErrorsLogged + 1 ELSE agErrorsLogged
           /\ agReturned' = agReturned \cup Range(DataOrEmpty(out))
           /\ batchCounts' =
                IF PageSucceeded(out)
                THEN [batchCounts EXCEPT !.successes = @ + 1]
                ELSE [batchCounts EXCEPT !.failures = @ + 1]
           /\ IF out.kind # "throw" /\ agPage.next < agPage.last
              THEN /\ agPage' = [agPage EXCEPT !.next = @ + 1]
                   /\ UNCHANGED <<agPc, agIdx>>
              ELSE /\ agPage' = [next |-> 0, last |-> 0]
                   /\ NextModalityPNCP
  /\ UNCHANGED <<agHandler, agQuery, totalAggregatedResults,
                 successfulRequests, failedRequests, subsequentPagePromises,
                 agFetched, agReported, agResponse>>
  /\ UNCHANGED <<pgVars, stVars, sbVars, hyVars, frVars, exVars, fwVars, dpVars, dlVars, ccVars, rqVars, wkVars, svVars, mcVars, ppVars, p1Vars, kfVars, tsVars>>

\* the handler of search-bids.ts answers 200 with warning: null
RespondPNCP ==
  /\ agHandler = "searchInPNCP"
  /\ agPc = "respond"
  /\ agResponse' = [status |-> 200, total |-> 0, warning |-> FALSE]
  /\ agPc' = "done"
  /\ UNCHANGED <<agHandler, agQuery, agIdx, agPage, allBids,
                 totalAggregatedResults, successfulRequests, failedRequests,
                 subsequentPagePromises, batchCounts, agErrorsLogged,
                 agFetched, agReported, agReturned>>
  /\ UNCHANGED <<pgVars, stVars, sbVars, hyVars, frVars, exVars, fwVars, dpVars, dlVars, ccVars, rqVars, wkVars, svVars, mcVars, ppVars, p1Vars, kfVars, tsVars>>

AggHandlers == {"cached", "searchInPNCP"}

NoResponse == [status |-> 0, total |-> 0, warning |-> FALSE]

AggStart(codes) ==
  /\ agIdx = 1
  /\ agPage = [next |-> 0, last |-> 0]
  /\ allBids = <<>>
  /\ totalAggregatedResults = 0
  /\ successfulRequests = 0
  /\ failedRequests = 0
  /\ subsequentPagePromises = <<>>
  /\ batchCounts = [successes |-> 0, failures |-> 0]
  /\ agErrorsLogged = 0
  /\ agFetched = [c \in Range(codes) |-> "none"]
  /\ agReported = [c \in Range(codes) |-> 0]
  /\ agReturned = {}
  /\ agResponse = NoResponse

InitAgg ==
  /\ agHandler \in AggHandlers
  /\ \E n \in 1..MaxModalities, keyword \in BOOLEAN, stateSearch \in BOOLEAN :
       agQuery = [codes |-> SubSeq(ALL_MODALITY_CODES, 1, n),
                  keyword |-> keyword, stateSearch |-> stateSearch]
  /\ agPc = "first"
  /\ AggStart(agQuery.codes)

IdleAgg ==
  /\ agHandler = "cached"
  /\ agQuery = [codes |-> <<>>, keyword |-> FALSE, stateSearch |-> FALSE]
  /\ agPc = "idle"
  /\ AggStart(<<>>)

NextAgg ==
  \/ FirstPageCached
  \/ BatchCached
  \/ RespondCached
  \/ FirstPagePNCP
  \/ LaterPagePNCP
  \/ RespondPNCP
-----------------------------------------------------------------------------
(* The hybrid handler with freshness, part_007:467-873: read the store,    *)
(* ask needsRefresh, aggregate from the upstream when required, save,      *)
(* merge, filter, sort and paginate.                                       *)

\* Records 1..MaxStored may be stored at the start; the upstream also lists
\* three newer ones.  A later id was published later.
FirstNew == MaxStored + 1
SecondNew == MaxStored + 2
ThirdNew == MaxStored + 3
Raw(id) == [id |-> id, situacao |-> "Divulgada"]
PubDate(id) == DateOn(id)
\* whether titulo or orgao of the record contains the query's keyword
KeywordInTitle(id) == id \notin {SecondNew, ThirdNew}
\* whether municipio of the record contains it
KeywordInMunicipio(id) == id = ThirdNew

\* order('data_publicacao', { ascending: false })
RECURSIVE OrderByDateDesc(_)
OrderByDateDesc(ids) ==
  IF ids = {} THEN <<>>
  ELSE LET first == CHOOSE x \in ids :
                      \A y \in ids : PubDate(y).t <= PubDate(x).t
       IN  <<first>> \o OrderByDateDesc(ids \ {first})

\* the rows of licitacoes the query's filter selects
Matching(table, keyword) ==
  {id \in StoredIds(table) : keyword => KeywordInTitle(id)}

limit == 50

\* searchInSupabase: range(offset, offset + limit - 1) of the ordered
\* matching rows; on a store error, { data: [] }
searchInSupabase(table, keyword, page, storeUp) ==
  IF ~storeUp THEN <<>>
  ELSE LET offset == (page - 1) * limit
       IN  JsSlice(OrderByDateDesc(Matching(table, keyword)),
                   offset, offset + limit)

\* the row of cache_buscas for the cache key
NoRecord == [present |-> FALSE, ultima_atualizacao |-> 0]

needsRefresh_TrustsFailedRead(row, agora, readOk) ==
  IF ~row.present THEN TRUE
  ELSE agora - row.ultima_atualizacao > 6

needsRefresh_AtLeastSix(row, agora, readOk) ==
  IF ~readOk \/ ~row.present THEN TRUE
  ELSE agora - row.ultima_atualizacao >= 6

\* needsRefresh: no row read (none, or the read failed) is stale
needsRefresh(row, agora, readOk) ==
  IF ~readOk \/ ~row.present THEN TRUE
  ELSE LET diffHoras == agora - row.ultima_atualizacao
       IN  diffHoras > 6

updateCacheRecord(agora) == [present |-> TRUE, ultima_atualizacao |-> agora]

\* the guard of the refresh branch
ShouldRefresh_OnlyWhenStale(stale, results) == stale

ShouldRefresh(stale, results) == stale \/ Len(results) < 5

\* modalityCodes.slice(0, 3)
maxModalidades(modalityCodes) == JsSlice(modalityCodes, 0, 3)

\* what the upstream may answer to the first page of a modality ...
HyFirstPageOutcomes(upstream) ==
  {ReturnsNull, Throws, NoContent}
    \cup IF upstream = "empty" THEN {}
         ELSE {Answer(TRUE, <<Raw(FirstNew)>>, tp, tp) :
                 tp \in 1..MaxTotalPaginas}

\* ... and to a later page
HyLaterPageOutcomes ==
  {ReturnsNull, Throws, Answer(TRUE, <<Raw(SecondNew)>>, 0, 0),
   Answer(TRUE, <<Raw(ThirdNew)>>, 0, 0)}

\* pages 2..Math.min(totalPaginas, 5), fetched only with a keyword
LaterPages(out, keyword) ==
  IF out.kind = "ok" /\ keyword /\ out.totalPaginas > 1
  THEN Min(out.totalPaginas, 5) - 1
  ELSE 0

\* the inner loop: a null page is skipped, a throw leaves the modality
RECURSIVE PushLaterPages(_, _)
PushLaterPages(acc, later) ==
  IF later = <<>> THEN acc
  ELSE LET pageData == Head(later)
           fetched == [acc EXCEPT !.fetches = @ + 1]
       IN  IF pageData.kind = "throw" THEN fetched
           ELSE PushLaterPages(
                  IF pageData.kind = "ok"
                  THEN [fetched EXCEPT !.bids = @ \o DataOrEmpty(pageData)]
                  ELSE fetched,
                  Tail(later))

\* one iteration of the loop over maxModalidades
CollectModality(bids, out, later) ==
  IF out.kind = "ok"
  THEN PushLaterPages([bids |-> bids \o DataOrEmpty(out), fetches |-> 1],
                      later)
  ELSE [bids |-> bids, fetches |-> 1]

\* a row of the store, and a raw record through mapBidData, in allResults
FromStore(id) == [id_unico |-> id, d |-> PubDate(id)]
mapBidData(contratacao) ==
  [id_unico |-> contratacao.id, d |-> PubDate(contratacao.id)]

\* allResults after the merge: the raw records whose id is not among the
\* store's results, appended
MergeResults(results, bids) ==
  LET existingIds == {results[i].id_unico : i \in 1..Len(results)}
      NotExisting(bid) == bid.id \notin existingIds
      fresh == SelectSeq(bids, NotExisting)
  IN  results \o [i \in 1..Len(fresh) |-> mapBidData(fresh[i])]

\* the filter by keyword
FilterResults(results, keyword) ==
  LET Keep(item) == \/ KeywordInTitle(item.id_unico)
                    \/ KeywordInMunicipio(item.id_unico)
  IN  IF keyword THEN SelectSeq(results, Keep) ELSE results

Ids(results) == [i \in 1..Len(results) |-> results[i].id_unico]

NoHyResponse == [status |-> 0, data |-> <<>>, total |-> 0, totalPages |-> 0]
NotServed == [served |-> FALSE, data |-> <<>>, totalPages |-> 0]

Request ==
  /\ hyPc \in {"idle", "done"}
  /\ hyRequestsLeft > 0
  /\ hyRequestsLeft' = hyRequestsLeft - 1
  /\ \E page \in 1..MaxPageNum, storeUp \in BOOLEAN, cacheUp \in BOOLEAN :
       LET data == searchInSupabase(hyLicitacoes, hyQuery.keyword, page,
                                    storeUp)
           results == [i \in 1..Len(data) |-> FromStore(data[i])]
           stale == needsRefresh(cache_buscas, clock, cacheUp)
       IN  /\ hyPageNum' = page
           /\ supabaseResults' = data
           /\ allResults' = results
           /\ precisaAtualizar' = stale
           /\ hyPc' = IF ShouldRefresh(stale, results) THEN "fetch"
                      ELSE "respond"
           /\ hyTrace' = [readOk |-> storeUp, fetches |-> 0, wrote |-> FALSE,
                        saved |-> 0]
  /\ hyIdx' = 1
  /\ pncpBids' = <<>>
  /\ hyResponse' = NoHyResponse
  /\ UNCHANGED <<hyLicitacoes, cache_buscas, clock, hyQuery, hyServed,
                 hyUpstream>>
  /\ UNCHANGED <<pgVars, stVars, sbVars, agVars, frVars, exVars, fwVars, dpVars, dlVars, ccVars, rqVars, wkVars, svVars, mcVars, ppVars, p1Vars, kfVars, tsVars>>

FetchModality ==
  /\ hyPc = "fetch"
  /\ \E out \in HyFirstPageOutcomes(hyUpstream) :
       \E later \in [1..LaterPages(out, hyQuery.keyword)
                       -> HyLaterPageOutcomes] :
         LET got == CollectModality(pncpBids, out, later)
         IN  /\ pncpBids' = got.bids
             /\ hyTrace' = [hyTrace EXCEPT !.fetches = @ + got.fetches]
  /\ IF hyIdx < Len(maxModalidades(hyQuery.codes))
     THEN hyIdx' = hyIdx + 1 /\ hyPc' = "fetch"
     ELSE hyIdx' = 0 /\ hyPc' = "save"
  /\ UNCHANGED <<hyLicitacoes, cache_buscas, clock, hyQuery, hyPageNum,
                 supabaseResults, allResults, precisaAtualizar, hyResponse,
                 hyServed, hyUpstream, hyRequestsLeft>>
  /\ UNCHANGED <<pgVars, stVars, sbVars, agVars, frVars, exVars, fwVars, dpVars, dlVars, ccVars, rqVars, wkVars, svVars, mcVars, ppVars, p1Vars, kfVars, tsVars>>

\* if (pncpBids.length > 0) { saveToSupabase; updateCacheRecord; merge }
SaveAndMerge ==
  /\ hyPc = "save"
  /\ IF Len(pncpBids) > 0
     THEN \E storeUp \in BOOLEAN :
            LET r == SaveToSupabase_hybrid(hyLicitacoes, pncpBids, <<storeUp>>)
            IN  /\ hyLicitacoes' = r.table
                /\ cache_buscas' = updateCacheRecord(clock)
                /\ allResults' = MergeResults(allResults, pncpBids)
                /\ hyTrace' = [hyTrace EXCEPT !.wrote = TRUE,
                                            !.saved = r.saved]
                /\ hyServed' = IF r.table = hyLicitacoes THEN hyServed
                               ELSE [p \in 1..MaxPageNum |-> NotServed]
     ELSE UNCHANGED <<hyLicitacoes, cache_buscas, allResults, hyTrace,
                      hyServed>>
  /\ hyPc' = "respond"
  /\ UNCHANGED <<clock, hyQuery, hyPageNum, supabaseResults, precisaAtualizar,
                 hyIdx, pncpBids, hyResponse, hyUpstream, hyRequestsLeft>>
  /\ UNCHANGED <<pgVars, stVars, sbVars, agVars, frVars, exVars, fwVars, dpVars, dlVars, ccVars, rqVars, wkVars, svVars, mcVars, ppVars, p1Vars, kfVars, tsVars>>

\* hyServed keeps the pages answered from the store alone: the read
\* succeeded and the upstream added no record
Respond ==
  /\ hyPc = "respond"
  /\ LET filteredResults ==
           SortByDateDesc("hybrid",
                          FilterResults(allResults, hyQuery.keyword))
         answer == [status |-> 200,
                    data |-> Ids(PaginateHybrid(filteredResults, hyPageNum)),
                    total |-> Len(filteredResults),
                    totalPages |-> TotalPagesHybrid(filteredResults)]
     IN  /\ hyResponse' = answer
         /\ hyServed' =
              IF hyTrace.readOk /\ pncpBids = <<>>
              THEN [hyServed EXCEPT ![hyPageNum] =
                      [served |-> TRUE, data |-> answer.data,
                       totalPages |-> answer.totalPages]]
              ELSE hyServed
  /\ hyPc' = "done"
  /\ UNCHANGED <<hyLicitacoes, cache_buscas, clock, hyQuery, hyPageNum,
                 supabaseResults, allResults, precisaAtualizar, hyIdx,
                 pncpBids, hyTrace, hyUpstream, hyRequestsLeft>>
  /\ UNCHANGED <<pgVars, stVars, sbVars, agVars, frVars, exVars, fwVars, dpVars, dlVars, ccVars, rqVars, wkVars, svVars, mcVars, ppVars, p1Vars, kfVars, tsVars>>

HyStart ==
  /\ hyPc = "idle"
  /\ hyPageNum = 1
  /\ supabaseResults = <<>>
  /\ allResults = <<>>
  /\ precisaAtualizar = FALSE
  /\ hyIdx = 0
  /\ pncpBids = <<>>
  /\ hyResponse = NoHyResponse
  /\ hyTrace = [readOk |-> FALSE, fetches |-> 0, wrote |-> FALSE,
               saved |-> 0]

InitHybrid ==
  /\ \E k \in {0, 5, MaxStored} :
       hyLicitacoes = FormatRows([i \in 1..k |-> Raw(i)])
  /\ cache_buscas \in {NoRecord, updateCacheRecord(0)}
  /\ clock \in {6, MaxClock}
  /\ hyQuery \in [keyword : BOOLEAN,
                  codes : {SubSeq(ALL_MODALITY_CODES, 1, n) :
                             n \in 1..MaxCodes}]
  /\ hyServed = [p \in 1..MaxPageNum |-> NotServed]
  /\ \/ hyUpstream = "listing" /\ hyRequestsLeft = 1
     \/ hyUpstream = "empty" /\ hyRequestsLeft = MaxRequests
  /\ HyStart

IdleHybrid ==
  /\ hyLicitacoes = <<>>
  /\ cache_buscas = NoRecord
  /\ hyQuery = [keyword |-> FALSE, codes |-> <<>>]
  /\ clock = 0
  /\ hyServed = <<>>
  /\ hyUpstream = "empty"
  /\ hyRequestsLeft = 0
  /\ HyStart

NextHybrid ==
  \/ Request
  \/ FetchModality
  \/ SaveAndMerge
  \/ Respond

-----------------------------------------------------------------------------
(* needsRefresh and updateCacheRecord on the row of one cache key, as the  *)
(* clock advances: part_007:578-607                                        *)

NoCheck == [called |-> FALSE, answer |-> FALSE, readOk |-> FALSE,
            inWindow |-> FALSE, fresh |-> FALSE]

\* a call of needsRefresh; inWindow: a row was read and it is at most six
\* hours old; fresh: such a row is stored, read or not
CallNeedsRefresh ==
  /\ \E readOk \in BOOLEAN :
       frChecks' = [prev |-> frChecks.last,
                    last |-> [called |-> TRUE,
                              answer |-> needsRefresh(frRow, frNow, readOk),
                              readOk |-> readOk,
                              inWindow |-> /\ readOk
                                           /\ frRow.present
                                           /\ frNow - frRow.ultima_atualizacao
                                                <= 6,
                              fresh |-> /\ frRow.present
                                        /\ frNow - frRow.ultima_atualizacao
                                             <= 6],
                    between |-> frChecks.since,
                    since |-> FALSE]
  /\ UNCHANGED <<frRow, frNow>>
  /\ UNCHANGED <<pgVars, stVars, sbVars, agVars, hyVars, exVars, fwVars, dpVars, dlVars, ccVars, rqVars, wkVars, svVars, mcVars, ppVars, p1Vars, kfVars, tsVars>>

\* a call of updateCacheRecord
RecordRefresh ==
  /\ frRow' = updateCacheRecord(frNow)
  /\ frChecks' = [frChecks EXCEPT !.since = TRUE]
  /\ UNCHANGED frNow
  /\ UNCHANGED <<pgVars, stVars, sbVars, agVars, hyVars, exVars, fwVars, dpVars, dlVars, ccVars, rqVars, wkVars, svVars, mcVars, ppVars, p1Vars, kfVars, tsVars>>

\* an hour passes
TickHour ==
  /\ frNow < MaxNow
  /\ frNow' = frNow + 1
  /\ UNCHANGED <<frRow, frChecks>>
  /\ UNCHANGED <<pgVars, stVars, sbVars, agVars, hyVars, exVars, fwVars, dpVars, dlVars, ccVars, rqVars, wkVars, svVars, mcVars, ppVars, p1Vars, kfVars, tsVars>>

InitFresh ==
  /\ frRow = NoRecord
  /\ frNow = 0
  /\ frChecks = [prev |-> NoCheck, last |-> NoCheck, between |-> FALSE,
                 since |-> FALSE]

IdleFresh == InitFresh

NextFresh == CallNeedsRefresh \/ RecordRefresh \/ TickHour

-----------------------------------------------------------------------------
(* The row saveToSupabase of part_015 builds from a raw record: formatDate *)
(* and getDataExpiracao, part_015:81-139.  Dates are calendar days; the    *)
(* functions run with the server's time zone at UTC.                       *)

\* a date field of the raw record: undefined, null, '', a string that does
\* not parse, or an ISO date
FieldAbsent == [kind |-> "absent", y |-> 0, m |-> 0, d |-> 0]
FieldNull == [kind |-> "null", y |-> 0, m |-> 0, d |-> 0]
FieldEmpty == [kind |-> "empty", y |-> 0, m |-> 0, d |-> 0]
FieldInvalid == [kind |-> "invalid", y |-> 0, m |-> 0, d |-> 0]
Ymd(y, m, d) == [kind |-> "date", y |-> y, m |-> m, d |-> d]

\* if (bid.field): a non-empty string
Truthy(f) == f.kind \in {"date", "invalid"}

IsLeapYear(y) == (y % 4 = 0 /\ y % 100 # 0) \/ y % 400 = 0

DaysInMonth(y, m) ==
  IF m = 2 THEN (IF IsLeapYear(y) THEN 29 ELSE 28)
  ELSE IF m \in {4, 6, 9, 11} THEN 30 ELSE 31

\* DayFromYear of ECMAScript: the day number of 1 January, from 1970
DayFromYear(y) ==
  365 * (y - 1970) + ((y - 1969) \div 4) - ((y - 1901) \div 100)
    + ((y - 1601) \div 400)

RECURSIVE DaysBeforeMonth(_, _)
DaysBeforeMonth(y, m) ==
  IF m = 1 THEN 0 ELSE DaysBeforeMonth(y, m - 1) + DaysInMonth(y, m - 1)

\* MakeDay(year, month, date): date may run past the end of the month
MakeDay(y, m, date) == DayFromYear(y) + DaysBeforeMonth(y, m) + date - 1

\* the years the dates of the model fall in
ExYears == 2023..2025

\* toISOString().split('T')[0] of a day number
ToISODate(day) ==
  CHOOSE c \in {Ymd(y, m, d) : y \in ExYears, m \in 1..12, d \in 1..31} :
    /\ c.d <= DaysInMonth(c.y, c.m)
    /\ MakeDay(c.y, c.m, c.d) = day

Returned(v) == [thrown |-> FALSE, value |-> v]
\* toISOString of an Invalid Date throws a RangeError
RangeError == [thrown |-> TRUE, value |-> FieldNull]

PlusDays_OneMore(f, days) ==
  IF f.kind = "invalid" THEN RangeError
  ELSE Returned(ToISODate(MakeDay(f.y, f.m, f.d + days + 1)))

\* date.setDate(date.getDate() + days); date.toISOString().split('T')[0]
PlusDays(f, days) ==
  IF f.kind = "invalid" THEN RangeError
  ELSE Returned(ToISODate(MakeDay(f.y, f.m, f.d + days)))

\* formatDate: null for a falsy string, and for one that does not parse
formatDate(f) == IF f.kind = "date" THEN f ELSE FieldNull

getDataExpiracao_PublicationFirst(bid, hoje) ==
  IF Truthy(bid.dataPublicacaoPncp)
  THEN PlusDays(bid.dataPublicacaoPncp, 90)
  ELSE IF Truthy(bid.dataAberturaProposta)
  THEN PlusDays(bid.dataAberturaProposta, 60)
  ELSE IF Truthy(bid.dataEncerramentoProposta)
  THEN PlusDays(bid.dataEncerramentoProposta, 30)
  ELSE PlusDays(hoje, 90)

getDataExpiracao(bid, hoje) ==
  IF Truthy(bid.dataEncerramentoProposta)
  THEN PlusDays(bid.dataEncerramentoProposta, 30)
  ELSE IF Truthy(bid.dataAberturaProposta)
  THEN PlusDays(bid.dataAberturaProposta, 60)
  ELSE IF Truthy(bid.dataPublicacaoPncp)
  THEN PlusDays(bid.dataPublicacaoPncp, 90)
  ELSE PlusDays(hoje, 90)

ExDates == {Ymd(2024, 1, 1), Ymd(2023, 1, 1), Ymd(2024, 2, 10),
            Ymd(2024, 12, 15)}
FieldVals == {FieldAbsent, FieldNull, FieldEmpty, FieldInvalid} \cup ExDates

NoRow == [thrown |-> FALSE, data_publicacao |-> FieldNull,
          data_abertura_proposta |-> FieldNull,
          data_encerramento_proposta |-> FieldNull,
          data_expiracao |-> FieldNull]

\* the callback of licitacoes.map: a throw of getDataExpiracao leaves the
\* callback, and saveToSupabase, without a row
FormatBid ==
  /\ exPc = "raw"
  /\ LET expiracao == getDataExpiracao(exBid, exHoje)
     IN  exRow' =
           IF expiracao.thrown THEN [NoRow EXCEPT !.thrown = TRUE]
           ELSE [thrown |-> FALSE,
                 data_publicacao |-> formatDate(exBid.dataPublicacaoPncp),
                 data_abertura_proposta |->
                   formatDate(exBid.dataAberturaProposta),
                 data_encerramento_proposta |->
                   formatDate(exBid.dataEncerramentoProposta),
                 data_expiracao |-> expiracao.value]
  /\ exPc' = "done"
  /\ UNCHANGED <<exBid, exHoje>>
  /\ UNCHANGED <<pgVars, stVars, sbVars, agVars, hyVars, frVars, fwVars, dpVars, dlVars, ccVars, rqVars, wkVars, svVars, mcVars, ppVars, p1Vars, kfVars, tsVars>>

InitExp ==
  /\ exBid \in [dataEncerramentoProposta : FieldVals,
                dataAberturaProposta : FieldVals,
                dataPublicacaoPncp : FieldVals]
  /\ exHoje \in {Ymd(2024, 1, 1), Ymd(2024, 12, 15)}
  /\ exPc = "raw"
  /\ exRow = NoRow

IdleExp ==
  /\ exBid = [dataEncerramentoProposta |-> FieldAbsent,
              dataAberturaProposta |-> FieldAbsent,
              dataPublicacaoPncp |-> FieldAbsent]
  /\ exHoje = Ymd(2024, 1, 1)
  /\ exPc = "idle"
  /\ exRow = NoRow

NextExp == FormatBid

-----------------------------------------------------------------------------
(* fetchPageForModality and fetchWithRetry: search-bids.ts:374-425,        *)
(* part_007:91-156 and part_015:171-211.  One action is one iteration of   *)
(* the retry loop: the request, the branch on its response and the delay   *)
(* that branch awaits.  Times are the milliseconds the code awaits.        *)

DELAY_BETWEEN_REQUESTS == 100
MAX_RETRIES == 3

\* what one physical request ends in: a 200 with a JSON body, a 200 with an
\* empty body, a 204 (its body is empty), a 429, another error status, or
\* a rejection (time-out, network error, a body JSON.parse refuses)
Responses == {"200 body", "200 empty", "204", "429", "500", "rejects"}

\* response.ok: the status is in 200..299
ResponseOk(response) == response \in {"200 body", "200 empty", "204"}

\* the text of the body is not ''
HasBody(response) == response = "200 body"

\* the parsed body of a "200 body" response
PageData == Answer(TRUE, <<Bid("1", 1)>>, 1, 1)

Pending == [kind |-> "pending", hasData |-> FALSE, data |-> <<>>,
            totalRegistros |-> 0, totalPaginas |-> 0]

\* Math.pow(2, attempt) * 1000
WaitTime(attempt) == (2 ^ attempt) * 1000

RetryStep_LinearBackoff(response, attempt, retries) ==
  IF ResponseOk(response)
  THEN IF HasBody(response) THEN [result |-> PageData, waited |-> 0]
       ELSE [result |-> Pending, waited |-> 0]
  ELSE IF response = "429"
  THEN [result |-> Pending, waited |-> 1000 * attempt]
  ELSE IF response = "500" THEN [result |-> Pending, waited |-> 0]
  ELSE IF attempt = retries THEN [result |-> Throws, waited |-> 0]
  ELSE [result |-> Pending, waited |-> 1000 * attempt]

\* the body of the for loop for one response: the value returned or thrown,
\* if any, and the delay awaited before the next iteration.  The test of
\* status 204 stands in the else of response.ok.
RetryStep(response, attempt, retries) ==
  IF ResponseOk(response)
  THEN IF HasBody(response) THEN [result |-> PageData, waited |-> 0]
       ELSE [result |-> Pending, waited |-> 0]
  ELSE IF response = "204"
  THEN [result |-> NoContent, waited |-> 0]
  ELSE IF response = "429"
  THEN [result |-> Pending, waited |-> WaitTime(attempt)]
  ELSE IF response = "500" THEN [result |-> Pending, waited |-> 0]
  ELSE IF attempt = retries THEN [result |-> Throws, waited |-> 0]
  ELSE [result |-> Pending, waited |-> 1000 * attempt]

\* fetchPageForModality up to its call of fetchWithRetry
FetchPageForModality ==
  /\ fwPc = "idle"
  /\ fwPc' = "attempt"
  /\ fwAttempt' = 1
  /\ fwSinceLast' = DELAY_BETWEEN_REQUESTS
  /\ UNCHANGED <<fwRequests, fwResult>>
  /\ UNCHANGED <<pgVars, stVars, sbVars, agVars, hyVars, frVars, exVars, dpVars, dlVars, ccVars, rqVars, wkVars, svVars, mcVars, ppVars, p1Vars, kfVars, tsVars>>

\* one iteration of the loop of fetchWithRetry; after the last one, null
FetchAttempt ==
  /\ fwPc = "attempt"
  /\ \E response \in Responses :
       LET step == RetryStep(response, fwAttempt, MAX_RETRIES)
           returns == step.result.kind # "pending"
           last == fwAttempt = MAX_RETRIES
       IN  /\ fwRequests' = Append(fwRequests,
                                   [response |-> response,
                                    pause |-> fwSinceLast])
           /\ fwSinceLast' = step.waited
           /\ fwResult' = IF returns THEN step.result
                          ELSE IF last THEN ReturnsNull ELSE Pending
           /\ fwPc' = IF returns \/ last THEN "done" ELSE "attempt"
           /\ fwAttempt' = IF returns THEN fwAttempt ELSE fwAttempt + 1
  /\ UNCHANGED <<pgVars, stVars, sbVars, agVars, hyVars, frVars, exVars, dpVars, dlVars, ccVars, rqVars, wkVars, svVars, mcVars, ppVars, p1Vars, kfVars, tsVars>>

InitFetch ==
  /\ fwPc = "idle"
  /\ fwAttempt = 0
  /\ fwRequests = <<>>
  /\ fwSinceLast = 0
  /\ fwResult = Pending

IdleFetch ==
  /\ fwPc = "unused"
  /\ fwAttempt = 0
  /\ fwRequests = <<>>
  /\ fwSinceLast = 0
  /\ fwResult = Pending

NextFetch == FetchPageForModality \/ FetchAttempt

-----------------------------------------------------------------------------
(* How the handlers dispatch their upstream requests: the cached handler   *)
(* of part_007 (first pages one by one, lines 248-296, then batches, lines *)
(* 300-353), the handler of part_014 (lines 103-136) and the handler of    *)
(* part_017 (lines 85-107).  dpInFlight counts the requests started and    *)
(* not yet settled.                                                        *)

DpHandlers == {"cached", "part_014", "part_017"}

\* totalPaginas a first page may report
DpTotalPages == {0, 1, MaxDispatchPages}

\* part_014: pages 2..Math.min(totalPages, MAX_PAGES_TO_FETCH), with
\* MAX_PAGES_TO_FETCH = 10 in that file
QueuedPages14(code, totalPages) ==
  IF totalPages > 1
  THEN [i \in 1..(Min(totalPages, 10) - 1) |->
          [modalityCode |-> code, page |-> i + 1]]
  ELSE <<>>

\* cached handler: await fetchPageForModality(modalityCode, 1, baseParams)
DispatchFirstPage ==
  /\ dpHandler = "cached"
  /\ dpPc = "first"
  /\ dpInFlight = 0
  /\ dpInFlight' = 1
  /\ UNCHANGED <<dpHandler, dpCodes, dpPc, dpIdx, dpQueue>>
  /\ UNCHANGED <<pgVars, stVars, sbVars, agVars, hyVars, frVars, exVars, fwVars, dlVars, ccVars, rqVars, wkVars, svVars, mcVars, ppVars, p1Vars, kfVars, tsVars>>

\* cached handler: batch.map(async ...) starts every fetch of the batch
DispatchBatch ==
  /\ dpHandler = "cached"
  /\ dpPc = "batches"
  /\ dpInFlight = 0
  /\ dpInFlight' = Len(JsSlice(dpQueue, dpIdx, dpIdx + BatchSize(dpQueue)))
  /\ UNCHANGED <<dpHandler, dpCodes, dpPc, dpIdx, dpQueue>>
  /\ UNCHANGED <<pgVars, stVars, sbVars, agVars, hyVars, frVars, exVars, fwVars, dlVars, ccVars, rqVars, wkVars, svVars, mcVars, ppVars, p1Vars, kfVars, tsVars>>

\* part_014 and part_017: modalityCodes.map(code => fetch...(code))
DispatchAllModalities ==
  /\ dpHandler \in {"part_014", "part_017"}
  /\ dpPc = "first"
  /\ dpInFlight = 0
  /\ dpInFlight' = Len(dpCodes)
  /\ dpPc' = "modalities"
  /\ UNCHANGED <<dpHandler, dpCodes, dpIdx, dpQueue>>
  /\ UNCHANGED <<pgVars, stVars, sbVars, agVars, hyVars, frVars, exVars, fwVars, dlVars, ccVars, rqVars, wkVars, svVars, mcVars, ppVars, p1Vars, kfVars, tsVars>>

\* part_014: every fetchPageForModality pushed to subsequentPagePromises
\* is started by the push, after the first pages have settled
DispatchAllPages ==
  /\ dpHandler = "part_014"
  /\ dpPc = "queued"
  /\ dpInFlight = 0
  /\ dpInFlight' = Len(dpQueue)
  /\ dpPc' = "pages"
  /\ UNCHANGED <<dpHandler, dpCodes, dpIdx, dpQueue>>
  /\ UNCHANGED <<pgVars, stVars, sbVars, agVars, hyVars, frVars, exVars, fwVars, dlVars, ccVars, rqVars, wkVars, svVars, mcVars, ppVars, p1Vars, kfVars, tsVars>>

\* a request in flight settles; when none is left the handler goes on.
\* dpIdx: the modality whose first page is awaited, then the batch offset.
\* In part_014 the first pages settle in any order; the one settling while
\* k are in flight is taken to be that of the k-th code.
Settle ==
  /\ dpInFlight > 0
  /\ dpInFlight' = dpInFlight - 1
  /\ \E tp \in DpTotalPages :
       LET queue ==
             IF dpHandler = "cached" /\ dpPc = "first"
             THEN dpQueue \o QueuedPages(dpCodes[dpIdx], tp, FALSE, FALSE)
             ELSE IF dpHandler = "part_014" /\ dpPc = "modalities"
             THEN dpQueue \o QueuedPages14(dpCodes[dpInFlight], tp)
             ELSE dpQueue
           size == BatchSize(dpQueue)
       IN  /\ dpQueue' = queue
           /\ IF dpInFlight > 1 THEN UNCHANGED <<dpPc, dpIdx>>
              ELSE IF dpHandler = "cached" /\ dpPc = "first"
              THEN IF dpIdx < Len(dpCodes)
                   THEN dpIdx' = dpIdx + 1 /\ dpPc' = "first"
                   ELSE dpIdx' = 0 /\ dpPc' = AfterLoop(queue)
              ELSE IF dpHandler = "cached"
              THEN IF dpIdx + size < Len(dpQueue)
                   THEN dpIdx' = dpIdx + size /\ dpPc' = "batches"
                   ELSE dpIdx' = 0 /\ dpPc' = "respond"
              ELSE /\ dpIdx' = dpIdx
                   /\ dpPc' = IF dpPc = "modalities" /\ queue # <<>>
                              THEN "queued" ELSE "respond"
  /\ UNCHANGED <<dpHandler, dpCodes>>
  /\ UNCHANGED <<pgVars, stVars, sbVars, agVars, hyVars, frVars, exVars, fwVars, dlVars, ccVars, rqVars, wkVars, svVars, mcVars, ppVars, p1Vars, kfVars, tsVars>>

InitDispatch ==
  /\ dpHandler \in DpHandlers
  /\ dpCodes \in {SubSeq(ALL_MODALITY_CODES, 1, n) :
                    n \in {1, MaxDispatchCodes}}
  /\ dpPc = "first"
  /\ dpIdx = 1
  /\ dpInFlight = 0
  /\ dpQueue = <<>>

IdleDispatch ==
  /\ dpHandler = "cached"
  /\ dpCodes = <<>>
  /\ dpPc = "idle"
  /\ dpIdx = 0
  /\ dpInFlight = 0
  /\ dpQueue = <<>>

NextDispatch ==
  \/ DispatchFirstPage
  \/ DispatchBatch
  \/ DispatchAllModalities
  \/ DispatchAllPages
  \/ Settle

-----------------------------------------------------------------------------
(* The aggregation of the cached handler (part_007:237-353) and of         *)
(* searchInPNCP (search-bids.ts:464-491) while the caller's deadline for    *)
(* the query runs out.  Neither handler keeps a deadline or a timer for    *)
(* the query: the only time limit in the code is the AbortSignal of each   *)
(* single request.  dlExpired is the caller's clock passing the deadline.  *)

DeadlineExpires ==
  /\ ~dlExpired
  /\ agPc \in {"first", "pages", "batches", "respond"}
  /\ dlExpired' = TRUE
  /\ UNCHANGED <<pgVars, stVars, sbVars, agVars, hyVars, frVars, exVars, fwVars, dpVars, ccVars, rqVars, wkVars, svVars, mcVars, ppVars, p1Vars, kfVars, tsVars>>

\* a step that awaits a modality or page fetch
AwaitsFetch == FirstPageCached \/ BatchCached \/ FirstPagePNCP \/ LaterPagePNCP

InitDeadline == InitAgg /\ dlExpired = FALSE

IdleDeadline == dlExpired = FALSE

NextDeadline == NextAgg \/ DeadlineExpires

-----------------------------------------------------------------------------
(* Two requests to the hybrid handler of part_007 with the same cache key, *)
(* running at the same time on one store: part_007:740-829.  Each await of *)
(* the handler is a step; the upserts of saveToSupabase (one per batch of  *)
(* 50) and of updateCacheRecord are single statements of the store.        *)

Queries == {"A", "B"}

\* the records the upstream lists for the query, the same for both: the
\* fifth record, which the table may hold already, and later ones
UpstreamListings == {[i \in 1..n |-> Raw(4 + i)] : n \in 1..MaxUpstream}

\* the store read and needsRefresh: if (precisaAtualizar || length < 5)
QueryNeedsRefresh ==
  \E q \in Queries :
    /\ ccPc[q] = "start"
    /\ LET data == searchInSupabase(ccTable, FALSE, 1, TRUE)
           stale == needsRefresh(ccCache, MaxClock, TRUE)
       IN  ccPc' = [ccPc EXCEPT ![q] = IF ShouldRefresh(stale, data)
                                       THEN "fetch" ELSE "respond"]
    /\ UNCHANGED <<ccTable, ccCache, ccStart, ccUpstream, ccBids, ccIdx,
                   ccStatus>>
    /\ UNCHANGED <<pgVars, stVars, sbVars, agVars, hyVars, frVars, exVars, fwVars, dpVars, dlVars, rqVars, wkVars, svVars, mcVars, ppVars, p1Vars, kfVars, tsVars>>

\* the loop over maxModalidades, every fetch answered
QueryFetch ==
  \E q \in Queries :
    /\ ccPc[q] = "fetch"
    /\ ccBids' = [ccBids EXCEPT ![q] = ccUpstream]
    /\ ccPc' = [ccPc EXCEPT ![q] = "save"]
    /\ UNCHANGED <<ccTable, ccCache, ccStart, ccUpstream, ccIdx, ccStatus>>
    /\ UNCHANGED <<pgVars, stVars, sbVars, agVars, hyVars, frVars, exVars, fwVars, dpVars, dlVars, rqVars, wkVars, svVars, mcVars, ppVars, p1Vars, kfVars, tsVars>>

\* one iteration of the loop of saveToSupabase: the upsert of one batch
QuerySaveBatch ==
  \E q \in Queries :
    /\ ccPc[q] = "save"
    /\ LET rows == FormatRows(ccBids[q])
           i == ccIdx[q]
           batch == JsSlice(rows, i, i + batchSize)
           r == StoreUpsert(ccTable, batch, "ignore-duplicates", TRUE)
       IN  /\ ccTable' = r.table
           /\ IF i + batchSize < Len(rows)
              THEN /\ ccIdx' = [ccIdx EXCEPT ![q] = i + batchSize]
                   /\ ccPc' = ccPc
              ELSE /\ ccIdx' = [ccIdx EXCEPT ![q] = 0]
                   /\ ccPc' = [ccPc EXCEPT ![q] = "record"]
    /\ UNCHANGED <<ccCache, ccStart, ccUpstream, ccBids, ccStatus>>
    /\ UNCHANGED <<pgVars, stVars, sbVars, agVars, hyVars, frVars, exVars, fwVars, dpVars, dlVars, rqVars, wkVars, svVars, mcVars, ppVars, p1Vars, kfVars, tsVars>>

\* await updateCacheRecord(cacheKey, ...)
QueryUpdateCache ==
  \E q \in Queries :
    /\ ccPc[q] = "record"
    /\ ccCache' = updateCacheRecord(MaxClock)
    /\ ccPc' = [ccPc EXCEPT ![q] = "respond"]
    /\ UNCHANGED <<ccTable, ccStart, ccUpstream, ccBids, ccIdx, ccStatus>>
    /\ UNCHANGED <<pgVars, stVars, sbVars, agVars, hyVars, frVars, exVars, fwVars, dpVars, dlVars, rqVars, wkVars, svVars, mcVars, ppVars, p1Vars, kfVars, tsVars>>

\* res.status(200).json(...)
QueryRespond ==
  \E q \in Queries :
    /\ ccPc[q] = "respond"
    /\ ccStatus' = [ccStatus EXCEPT ![q] = 200]
    /\ ccPc' = [ccPc EXCEPT ![q] = "done"]
    /\ UNCHANGED <<ccTable, ccCache, ccStart, ccUpstream, ccBids, ccIdx>>
    /\ UNCHANGED <<pgVars, stVars, sbVars, agVars, hyVars, frVars, exVars, fwVars, dpVars, dlVars, rqVars, wkVars, svVars, mcVars, ppVars, p1Vars, kfVars, tsVars>>

InitConc ==
  /\ \E k \in {0, 1, 5} : ccStart = FormatRows([i \in 1..k |-> Raw(i)])
  /\ ccTable = ccStart
  /\ ccCache \in {NoRecord, updateCacheRecord(0), updateCacheRecord(MaxClock)}
  /\ ccUpstream \in UpstreamListings
  /\ ccPc = [q \in Queries |-> "start"]
  /\ ccBids = [q \in Queries |-> <<>>]
  /\ ccIdx = [q \in Queries |-> 0]
  /\ ccStatus = [q \in Queries |-> 0]

IdleConc ==
  /\ ccStart = <<>>
  /\ ccTable = <<>>
  /\ ccCache = NoRecord
  /\ ccUpstream = <<>>
  /\ ccPc = [q \in Queries |-> "idle"]
  /\ ccBids = [q \in Queries |-> <<>>]
  /\ ccIdx = [q \in Queries |-> 0]
  /\ ccStatus = [q \in Queries |-> 0]

NextConc ==
  \/ QueryNeedsRefresh
  \/ QueryFetch
  \/ QuerySaveBatch
  \/ QueryUpdateCache
  \/ QueryRespond

(***************************************************************************)
(* The query: which modality codes a handler queries upstream, and the    *)
(* key of the freshness record.  src/unnamed/part_007 (cached handler     *)
(* 168-181; hybrid handler 489-491, 743, 754-788),                         *)
(* src/api/search-bids.ts:431-441, src/unnamed/part_015:257-262.           *)
(***************************************************************************)

RqHandlers == {"cached", "hybrid", "searchBids", "part015"}

\* ALL_MODALITY_CODES of part_015
ALL_MODALITY_CODES_part015 ==
  <<"1", "2", "3", "4", "5", "6", "7", "8", "9", "10", "11", "12", "13">>

\* a parameter absent from req.query is the empty string here: both are
\* falsy.  modality is the list of the codes between its commas.
RqModalities ==
  {<<>>, <<"all">>, <<"6">>, <<"6", "8">>, <<"1", "4", "6", "8">>}
RqQueries ==
  [uf : {"", "all", "PE"}, city : {"", "2611606"}, keyword : {"", "obra"},
   modality : RqModalities]

\* a || b on strings
StrOr(a, b) == IF a = "" THEN b ELSE a

\* the modality parameter as the request carries it
RECURSIVE ModalityParam(_)
ModalityParam(codes) ==
  IF codes = <<>> THEN ""
  ELSE IF Len(codes) = 1 THEN codes[1]
  ELSE codes[1] \o "," \o ModalityParam(Tail(codes))

generateCacheKey_WithoutModality(uf, city, keyword, modality) ==
  StrOr(uf, "all") \o "_" \o StrOr(city, "all") \o "_"
    \o StrOr(keyword, "none")

\* `${uf || 'all'}_${city || 'all'}_${keyword || 'none'}_${modality || 'all'}`
generateCacheKey(uf, city, keyword, modality) ==
  StrOr(uf, "all") \o "_" \o StrOr(city, "all") \o "_"
    \o StrOr(keyword, "none") \o "_" \o StrOr(modality, "all")

CacheKeyOf(q) ==
  generateCacheKey(q.uf, q.city, q.keyword, ModalityParam(q.modality))

\* !modality || modality === 'all' || modality === ''
NoModality(q) == q.modality = <<>> \/ q.modality = <<"all">>

\* uf && uf !== 'all' && (!city || city === 'all')
StateSearch(q) ==
  /\ q.uf # "" /\ q.uf # "all"
  /\ q.city = "" \/ q.city = "all"

\* modalityCodes of the handler
ModalityCodes(handler, q) ==
  IF handler = "part015" THEN ALL_MODALITY_CODES_part015
  ELSE IF NoModality(q)
  THEN IF StateSearch(q)
       THEN IF handler = "searchBids"
            THEN <<"1", "2", "3", "4", "5", "6", "7", "8">>
            ELSE <<"1", "2", "3", "4", "5">>
       ELSE ALL_MODALITY_CODES
  ELSE q.modality

\* the codes the handler's loop passes to fetchPageForModality
QueriedCodes(handler, q) ==
  IF handler = "hybrid" THEN maxModalidades(ModalityCodes(handler, q))
  ELSE ModalityCodes(handler, q)

\* const cacheKey = generateCacheKey(uf, city, keyword, modality), for the
\* query and for a second query to the same handler
GenerateCacheKeys ==
  /\ rqPc = "start"
  /\ rqHandler = "hybrid"
  /\ rqKeys' = <<CacheKeyOf(rqQuery), CacheKeyOf(rqOther)>>
  /\ rqPc' = "keyed"
  /\ UNCHANGED <<rqHandler, rqQuery, rqOther, rqCodes>>
  /\ UNCHANGED <<pgVars, stVars, sbVars, agVars, hyVars, frVars, exVars, fwVars, dpVars, dlVars, ccVars, wkVars, svVars, mcVars, ppVars, p1Vars, kfVars, tsVars>>

SelectModalityCodes ==
  /\ rqPc = IF rqHandler = "hybrid" THEN "keyed" ELSE "start"
  /\ rqCodes' = QueriedCodes(rqHandler, rqQuery)
  /\ rqPc' = "selected"
  /\ UNCHANGED <<rqHandler, rqQuery, rqOther, rqKeys>>
  /\ UNCHANGED <<pgVars, stVars, sbVars, agVars, hyVars, frVars, exVars, fwVars, dpVars, dlVars, ccVars, wkVars, svVars, mcVars, ppVars, p1Vars, kfVars, tsVars>>

InitQuery ==
  /\ rqHandler \in RqHandlers
  /\ rqQuery \in RqQueries
  /\ rqOther \in IF rqHandler = "hybrid" THEN RqQueries ELSE {rqQuery}
  /\ rqKeys = <<>>
  /\ rqCodes = <<>>
  /\ rqPc = "start"

IdleQuery ==
  /\ rqHandler = "cached"
  /\ rqQuery = [uf |-> "", city |-> "", keyword |-> "", modality |-> <<>>]
  /\ rqOther = rqQuery
  /\ rqKeys = <<>>
  /\ rqCodes = <<>>
  /\ rqPc = "unused"

NextQuery == GenerateCacheKeys \/ SelectModalityCodes

(***************************************************************************)
(* The page walk of src/unnamed/part_015: searchInPNCP (257-296) calls     *)
(* fetchAllPagesForModality (216-254) for one modality after the other.    *)
(***************************************************************************)

\* what fetchWithRetry may hand to the walk for one page: null, an
\* exception after the retries, a page of one record reporting some
\* totalPaginas (0 stands for 0, null and a missing field: all falsy), a
\* page without records, a body without data
WalkOutcomes(code, page) ==
  {ReturnsNull, Throws, NoContent, NoDataField}
    \cup {Answer(TRUE, <<Bid(code, page)>>, tp, tp) :
            tp \in {0, 1, 2, MaxWalkTotal}}

\* if (data && data.data && data.data.length > 0)
HasRecords(data) ==
  data.kind = "ok" /\ data.hasData /\ Len(data.data) > 0

hasMorePages_Uncapped(page, data) == page < OrOne(data.totalPaginas)

\* hasMorePages = page < (data.totalPaginas || 1); page++;
\* if (page > 10) hasMorePages = false
hasMorePages(page, data) ==
  IF page + 1 > 10 THEN FALSE ELSE page < OrOne(data.totalPaginas)

\* the modality is over: its allData reaches allBids, unless the walk threw
EndModality(modalityData) ==
  /\ wkAllBids' = wkAllBids \o modalityData
  /\ wkAllData' = <<>>
  /\ wkPage' = 1
  /\ IF wkIdx < MaxWalkCodes
     THEN wkIdx' = wkIdx + 1 /\ wkPc' = "page"
     ELSE wkIdx' = wkIdx /\ wkPc' = "done"

\* one iteration of the while loop, with the return and the catch of
\* searchInPNCP when the loop ends
WalkPage ==
  /\ wkPc = "page"
  /\ \E data \in WalkOutcomes(ALL_MODALITY_CODES_part015[wkIdx], wkPage) :
       /\ wkRequested' = IF wkPage = 1 THEN <<wkPage>>
                         ELSE Append(wkRequested, wkPage)
       /\ wkReported' = IF wkPage = 1 THEN <<data>>
                        ELSE Append(wkReported, data)
       /\ IF data.kind = "throw"
          THEN /\ EndModality(<<>>)
               /\ UNCHANGED wkFetched
          ELSE IF HasRecords(data)
          THEN /\ wkFetched' = wkFetched \o data.data
               /\ IF hasMorePages(wkPage, data)
                  THEN /\ wkAllData' = wkAllData \o data.data
                       /\ wkPage' = wkPage + 1
                       /\ UNCHANGED <<wkAllBids, wkIdx, wkPc>>
                  ELSE EndModality(wkAllData \o data.data)
          ELSE /\ EndModality(wkAllData)
               /\ UNCHANGED wkFetched
  /\ UNCHANGED <<pgVars, stVars, sbVars, agVars, hyVars, frVars, exVars, fwVars, dpVars, dlVars, ccVars, rqVars, svVars, mcVars, ppVars, p1Vars, kfVars, tsVars>>

InitWalk ==
  /\ wkPc = "page"
  /\ wkIdx = 1
  /\ wkPage = 1
  /\ wkAllData = <<>>
  /\ wkAllBids = <<>>
  /\ wkRequested = <<>>
  /\ wkReported = <<>>
  /\ wkFetched = <<>>

IdleWalk ==
  /\ wkPc = "unused"
  /\ wkIdx = 1
  /\ wkPage = 1
  /\ wkAllData = <<>>
  /\ wkAllBids = <<>>
  /\ wkRequested = <<>>
  /\ wkReported = <<>>
  /\ wkFetched = <<>>

NextWalk == WalkPage

(***************************************************************************)
(* saveToSupabase, request by request: the number of rows each write       *)
(* carries and what the call returns.  src/unnamed/part_007:532-576        *)
(* (batches), src/api/search-bids.ts:318-368 and                           *)
(* src/unnamed/part_015:76-165 (one POST).                                 *)
(***************************************************************************)

\* licitacoes.length
PayloadSizes ==
  {0, 1} \cup {k * batchSize : k \in 1..MaxSaveBatches}
         \cup {k * batchSize + 1 : k \in 1..MaxSaveBatches}

\* for (let i = 0; i < licitacoesFormatadas.length; i += batchSize): one
\* upsert of licitacoesFormatadas.slice(i, i + batchSize), counted in
\* errors or in saved
SaveBatchHybrid ==
  /\ svHandler = "hybrid"
  /\ svPc = "loop"
  /\ svI < svLength
  /\ \E error \in BOOLEAN :
       LET batch == Min(svI + batchSize, svLength) - svI
       IN  /\ svWrites' = Append(svWrites, [rows |-> batch, ok |-> ~error])
           /\ IF error
              THEN svErrors' = svErrors + batch /\ UNCHANGED svSaved
              ELSE svSaved' = svSaved + batch /\ UNCHANGED svErrors
  /\ svI' = svI + batchSize
  /\ UNCHANGED <<svHandler, svLength, svPc>>
  /\ UNCHANGED <<pgVars, stVars, sbVars, agVars, hyVars, frVars, exVars, fwVars, dpVars, dlVars, ccVars, rqVars, wkVars, mcVars, ppVars, p1Vars, kfVars, tsVars>>

\* if (!licitacoes.length) return { saved: 0, errors: 0 }, and
\* return { saved, errors } after the loop
SaveReturnHybrid ==
  /\ svHandler = "hybrid"
  /\ svPc = "loop"
  /\ svI >= svLength
  /\ svPc' = "returned"
  /\ UNCHANGED <<svHandler, svLength, svI, svSaved, svErrors, svWrites>>
  /\ UNCHANGED <<pgVars, stVars, sbVars, agVars, hyVars, frVars, exVars, fwVars, dpVars, dlVars, ccVars, rqVars, wkVars, mcVars, ppVars, p1Vars, kfVars, tsVars>>

\* search-bids.ts and part_015: if (!licitacoes.length) return 0; one POST
\* of licitacoesFormatadas; its length when response.ok, else (and when
\* fetch rejects) 0
SavePostOnce ==
  /\ svHandler \in {"searchBids", "part015"}
  /\ svPc = "loop"
  /\ IF svLength = 0
     THEN UNCHANGED <<svWrites, svSaved>>
     ELSE \E outcome \in {"ok", "not ok", "rejects"} :
            /\ svWrites' = Append(svWrites, [rows |-> svLength,
                                             ok |-> outcome = "ok"])
            /\ svSaved' = IF outcome = "ok" THEN svLength ELSE 0
  /\ svPc' = "returned"
  /\ UNCHANGED <<svHandler, svLength, svI, svErrors>>
  /\ UNCHANGED <<pgVars, stVars, sbVars, agVars, hyVars, frVars, exVars, fwVars, dpVars, dlVars, ccVars, rqVars, wkVars, mcVars, ppVars, p1Vars, kfVars, tsVars>>

InitSave ==
  /\ svHandler \in SaveHandlers
  /\ svLength \in PayloadSizes
  /\ svI = 0
  /\ svSaved = 0
  /\ svErrors = 0
  /\ svWrites = <<>>
  /\ svPc = "loop"

IdleSave ==
  /\ svHandler = "hybrid"
  /\ svLength = 0
  /\ svI = 0
  /\ svSaved = 0
  /\ svErrors = 0
  /\ svWrites = <<>>
  /\ svPc = "unused"

NextSave == SaveBatchHybrid \/ SaveReturnHybrid \/ SavePostOnce

(***************************************************************************)
(* The in-memory result cache of the cached handler,                       *)
(* src/unnamed/part_007:18-64 (cache, getCacheKey, getCachedResult,        *)
(* setCachedResult) and its use in the handler, lines 170-235 and 417-449. *)
(* Time is in minutes.  One geography and one keyword are modelled, so a   *)
(* key is the sorted modality list and the page.                           *)
(***************************************************************************)

\* 10 * 60 * 1000 ms
CACHE_TTL == 10
\* if (cache.size > 100)
CacheLimit == 100

\* the order of Array.prototype.sort() without a comparator on the codes:
\* by UTF-16 code units of the strings
LexOrder ==
  <<"1", "12", "13", "2", "3", "4", "5", "6", "7", "8", "9">>
LexRank(code) == CHOOSE i \in 1..Len(LexOrder) : LexOrder[i] = code
Before(a, b) == LexRank(a) < LexRank(b)

\* modalityCodes.sort(): the array itself, sorted in place
sort(codes) == SortSeq(codes, Before)

\* getCacheKey: the key, and the array it was given as it is left
getCacheKey(modalityCodes, page) ==
  [key |-> <<sort(modalityCodes), page>>, modalityCodes |-> sort(modalityCodes)]

\* resultToCache, and the values standing for "nothing yet"
Result(filteredBids, total, warning) ==
  [filteredBids |-> filteredBids, totalAggregatedResults |-> total,
   warning |-> warning]
NoResult == Result(<<>>, 0, FALSE)
NoMcResponse ==
  [data |-> <<>>, total |-> 0, totalPages |-> 0, cached |-> FALSE,
   warning |-> FALSE]
NoMcLast ==
  [kind |-> "none", present |-> FALSE, age |-> 0, response |-> NoMcResponse,
   original |-> NoMcResponse, fetched |-> <<>>]

Position(map, key) ==
  IF \E i \in 1..Len(map) : map[i].key = key
  THEN CHOOSE i \in 1..Len(map) : map[i].key = key
  ELSE 0

Without(map, key) ==
  LET Other(e) == e.key # key IN SelectSeq(map, Other)

getCachedResult_Inclusive(map, key, now) ==
  LET i == Position(map, key)
  IN  IF i # 0 /\ now - map[i].timestamp <= CACHE_TTL
      THEN [hit |-> TRUE, data |-> map[i].data, cache |-> map]
      ELSE [hit |-> FALSE, data |-> NoResult, cache |-> Without(map, key)]

\* getCachedResult: the data of a young entry; an old one is deleted
getCachedResult(map, key, now) ==
  LET i == Position(map, key)
  IN  IF i # 0 /\ now - map[i].timestamp < CACHE_TTL
      THEN [hit |-> TRUE, data |-> map[i].data, cache |-> map]
      ELSE [hit |-> FALSE, data |-> NoResult, cache |-> Without(map, key)]

\* Map.prototype.set: a key already present keeps its place
MapSet(map, entry) ==
  LET i == Position(map, entry.key)
  IN  IF i = 0 THEN Append(map, entry) ELSE [map EXCEPT ![i] = entry]

\* setCachedResult: if (cache.size > 100) delete the first key; then set
setCachedResult(map, key, data, now) ==
  LET room == IF Len(map) > CacheLimit THEN Tail(map) ELSE map
  IN  MapSet(room, [key |-> key, data |-> data, timestamp |-> now])

\* the response of the cache hit path, lines 221-234
HitResponse_RawTotalPages(cachedResult, finalPage) ==
  [data |-> PaginateCached(cachedResult.filteredBids, finalPage),
   total |-> cachedResult.totalAggregatedResults,
   totalPages |-> MathCeilDiv(Len(cachedResult.filteredBids), itemsPerPage),
   cached |-> TRUE,
   warning |-> cachedResult.warning]

HitResponse(cachedResult, finalPage) ==
  [data |-> PaginateCached(cachedResult.filteredBids, finalPage),
   total |-> cachedResult.totalAggregatedResults,
   totalPages |-> TotalPagesCached(cachedResult.filteredBids),
   cached |-> TRUE,
   warning |-> cachedResult.warning]

\* the response of the miss path, lines 437-449
MissResponse(filteredBids, total, warning, finalPage) ==
  [data |-> PaginateCached(filteredBids, finalPage),
   total |-> total,
   totalPages |-> TotalPagesCached(filteredBids),
   cached |-> FALSE,
   warning |-> warning]

\* what the aggregation may yield: no bid, or eleven; the total is the
\* upstream's count; warning is true for the state-wide warning text
Computed ==
  {NoResult, Result([i \in 1..11 |-> i], 25, TRUE)}

\* the requests: the default modality list (the array ALL_MODALITY_CODES
\* itself) or modality=6,1; a page
McRequests ==
  [default : BOOLEAN, page : {1, CacheLimit + 1, CacheLimit + 2}]

\* lines 170-235: modalityCodes, getCacheKey, getCachedResult, the hit
\* response
HandlerLookup ==
  /\ mcPc = "idle"
  /\ mcRequestsLeft > 0
  /\ mcRequestsLeft' = mcRequestsLeft - 1
  /\ \E req \in McRequests :
       LET modalityCodes == IF req.default THEN mcALL ELSE <<"6", "1">>
           keyed == getCacheKey(modalityCodes, req.page)
           got == getCachedResult(mcCache, keyed.key, mcNow)
           i == Position(mcCache, keyed.key)
       IN  /\ mcReq' = [page |-> req.page, key |-> keyed.key,
                        requested |-> modalityCodes]
           /\ mcCodes' = keyed.modalityCodes
           /\ mcALL' = IF req.default THEN keyed.modalityCodes ELSE mcALL
           /\ mcCache' = got.cache
           /\ mcLast' = [kind |-> IF got.hit THEN "hit" ELSE "miss",
                         present |-> i # 0,
                         age |-> IF i # 0 THEN mcNow - mcCache[i].timestamp
                                 ELSE 0,
                         response |-> IF got.hit
                                      THEN HitResponse(got.data, req.page)
                                      ELSE NoMcResponse,
                         original |-> IF got.hit THEN mcAnswered[keyed.key]
                                      ELSE NoMcResponse,
                         fetched |-> <<>>]
           /\ mcPc' = IF got.hit THEN "idle" ELSE "compute"
  /\ UNCHANGED <<mcNow, mcAnswered>>
  /\ UNCHANGED <<pgVars, stVars, sbVars, agVars, hyVars, frVars, exVars, fwVars, dpVars, dlVars, ccVars, rqVars, wkVars, svVars, ppVars, p1Vars, kfVars, tsVars>>

\* lines 237-449: the modalities are fetched in the order of modalityCodes,
\* the result is cached and answered
HandlerStore ==
  /\ mcPc = "compute"
  /\ \E result \in Computed :
       LET answer == MissResponse(result.filteredBids,
                                  result.totalAggregatedResults,
                                  result.warning, mcReq.page)
       IN  /\ mcCache' = setCachedResult(mcCache, mcReq.key, result, mcNow)
           /\ mcAnswered' = [k \in DOMAIN mcAnswered \cup {mcReq.key} |->
                               IF k = mcReq.key THEN answer
                               ELSE mcAnswered[k]]
           /\ mcLast' = [mcLast EXCEPT !.response = answer,
                                       !.original = answer,
                                       !.fetched = mcCodes]
  /\ mcPc' = "idle"
  /\ UNCHANGED <<mcNow, mcALL, mcReq, mcCodes, mcRequestsLeft>>
  /\ UNCHANGED <<pgVars, stVars, sbVars, agVars, hyVars, frVars, exVars, fwVars, dpVars, dlVars, ccVars, rqVars, wkVars, svVars, ppVars, p1Vars, kfVars, tsVars>>

\* five minutes pass
McTick ==
  /\ mcNow < MaxCacheNow
  /\ mcNow' = mcNow + 5
  /\ UNCHANGED <<mcCache, mcALL, mcPc, mcReq, mcCodes, mcLast, mcAnswered,
                 mcRequestsLeft>>
  /\ UNCHANGED <<pgVars, stVars, sbVars, agVars, hyVars, frVars, exVars, fwVars, dpVars, dlVars, ccVars, rqVars, wkVars, svVars, ppVars, p1Vars, kfVars, tsVars>>

\* the cache after the query for modality=6,1 was answered for the pages
\* 1..k at time 0
Warm(k) ==
  [p \in 1..k |->
     [key |-> <<sort(<<"6", "1">>), p>>, data |-> NoResult,
      timestamp |-> 0]]

McStart ==
  /\ mcNow = 0
  /\ mcPc = "idle"
  /\ mcReq = [page |-> 1, key |-> <<>>, requested |-> <<>>]
  /\ mcCodes = <<>>
  /\ mcLast = NoMcLast

InitMemCache ==
  /\ \E k \in {0, CacheLimit - 1, CacheLimit} :
       /\ mcCache = Warm(k)
       /\ mcAnswered = [key \in {Warm(k)[p].key : p \in 1..k} |->
                          MissResponse(<<>>, 0, FALSE, key[2])]
       /\ mcALL = ALL_MODALITY_CODES
  /\ mcRequestsLeft = MaxCacheRequests
  /\ McStart

IdleMemCache ==
  /\ mcCache = <<>>
  /\ mcAnswered = <<>>
  /\ mcALL = ALL_MODALITY_CODES
  /\ mcRequestsLeft = 0
  /\ McStart

NextMemCache == HandlerLookup \/ HandlerStore \/ McTick

(***************************************************************************)
(* The page parameter: parseInt(page, 10) and the slice it selects.        *)
(* src/api/search-bids.ts:507-508 and 555-559, src/unnamed/part_007:437-439 *)
(* and 711-712.                                                            *)
(***************************************************************************)

\* values of the query parameter page
PageParams == {"1", "2", "0", "-1", "-2", "abc", "", "1.5", "2abc"}

\* parseInt(page, 10): the leading integer of the string, NaN without one
parseInt(page) ==
  CASE page = "1" -> Num(1)
    [] page = "2" -> Num(2)
    [] page = "0" -> Num(0)
    [] page = "-1" -> Num(-1)
    [] page = "-2" -> Num(-2)
    [] page = "1.5" -> Num(1)
    [] page = "2abc" -> Num(2)
    [] OTHER -> NaN

\* list.slice(start, end) when the indexes come from pageNum: NaN indexes
\* count as 0
SlicePage(handler, list, pageNum) ==
  IF pageNum.nan THEN JsSlice(list, 0, 0)
  ELSE IF handler = "cached" THEN PaginateCached(list, pageNum.v)
  ELSE PaginateHybrid(list, pageNum.v)

RespondForPage ==
  /\ ppPc = "req"
  /\ ppData' = SlicePage(ppHandler, ppList, parseInt(ppPage))
  /\ ppPc' = "done"
  /\ UNCHANGED <<ppHandler, ppPage, ppList>>
  /\ UNCHANGED <<pgVars, stVars, sbVars, agVars, hyVars, frVars, exVars, fwVars, dpVars, dlVars, ccVars, rqVars, wkVars, svVars, mcVars, p1Vars, kfVars, tsVars>>

InitPageParam ==
  /\ ppHandler \in PgHandlers
  /\ ppPage \in PageParams
  /\ \E n \in 0..MaxRecords : ppList = [i \in 1..n |-> i]
  /\ ppData = <<>>
  /\ ppPc = "req"

IdlePageParam ==
  /\ ppHandler = "hybrid"
  /\ ppPage = "1"
  /\ ppList = <<>>
  /\ ppData = <<>>
  /\ ppPc = "unused"

NextPageParam == RespondForPage

(***************************************************************************)
(* The handler of src/unnamed/part_015 (lines 301-379): the upstream is    *)
(* asked on page 1 only.  The store and the results are modelled by their  *)
(* numbers of records.                                                     *)
(***************************************************************************)

\* records in licitacoes that match the query, at the start
StoredCounts == {0, 1, 19, 20, 21}
\* records searchInPNCP may collect
CollectedCounts == 0..MaxCollected

\* searchInSupabase: the matching rows, [] when the read fails
ReadCount(stored, storeUp) == IF storeUp THEN stored ELSE 0

\* if (pageNum === 1 && supabaseResults.length < 20)
AsksUpstream(pageNum, results) == pageNum = 1 /\ results < 20

\* source: pageNum === 1 ? 'hybrid' : 'supabase-only'
SourceField(pageNum) == IF pageNum = 1 THEN "hybrid" ELSE "supabase-only"

\* line 319: the first read of the store
ReadStore ==
  /\ p1Pc = "read"
  /\ \E storeUp \in BOOLEAN :
       LET results == ReadCount(p1Stored, storeUp)
       IN  /\ p1Results' = results
           /\ p1FirstRead' = results
           /\ p1Pc' = IF AsksUpstream(p1PageNum, results) THEN "refresh"
                      ELSE "respond"
  /\ UNCHANGED <<p1PageNum, p1Stored, p1Consulted, p1Wrote, p1Source>>
  /\ UNCHANGED <<pgVars, stVars, sbVars, agVars, hyVars, frVars, exVars, fwVars, dpVars, dlVars, ccVars, rqVars, wkVars, svVars, mcVars, ppVars, kfVars, tsVars>>

\* lines 322-334: searchInPNCP, and with records saveToSupabase and the
\* second read
RefreshFirstPage ==
  /\ p1Pc = "refresh"
  /\ p1Consulted' = TRUE
  /\ \E collected \in CollectedCounts, saveUp \in BOOLEAN,
        readUp \in BOOLEAN :
       IF collected > 0
       THEN LET stored == IF saveUp THEN p1Stored + collected ELSE p1Stored
            IN  /\ p1Wrote' = TRUE
                /\ p1Stored' = stored
                /\ p1Results' = ReadCount(stored, readUp)
       ELSE UNCHANGED <<p1Wrote, p1Stored, p1Results>>
  /\ p1Pc' = "respond"
  /\ UNCHANGED <<p1PageNum, p1FirstRead, p1Source>>
  /\ UNCHANGED <<pgVars, stVars, sbVars, agVars, hyVars, frVars, exVars, fwVars, dpVars, dlVars, ccVars, rqVars, wkVars, svVars, mcVars, ppVars, kfVars, tsVars>>

\* lines 357-370: the response
RespondPage1 ==
  /\ p1Pc = "respond"
  /\ p1Source' = SourceField(p1PageNum)
  /\ p1Pc' = "done"
  /\ UNCHANGED <<p1PageNum, p1Stored, p1Results, p1FirstRead, p1Consulted,
                 p1Wrote>>
  /\ UNCHANGED <<pgVars, stVars, sbVars, agVars, hyVars, frVars, exVars, fwVars, dpVars, dlVars, ccVars, rqVars, wkVars, svVars, mcVars, ppVars, kfVars, tsVars>>

P1Start ==
  /\ p1Results = 0
  /\ p1FirstRead = 0
  /\ p1Consulted = FALSE
  /\ p1Wrote = FALSE
  /\ p1Source = "none"

InitPage1 ==
  /\ p1PageNum \in 1..3
  /\ p1Stored \in StoredCounts
  /\ p1Pc = "read"
  /\ P1Start

IdlePage1 ==
  /\ p1PageNum = 1
  /\ p1Stored = 0
  /\ p1Pc = "unused"
  /\ P1Start

NextPage1 == ReadStore \/ RefreshFirstPage \/ RespondPage1

(***************************************************************************)
(* The handler of src/unnamed/part_010: one page of every modality in      *)
(* parallel, then the conditional keyword filter (lines 100-116).  Query   *)
(* values and text fields are JavaScript values: undefined, a string (a    *)
(* sequence of characters) or an array (a repeated query parameter).       *)
(***************************************************************************)

Undefined == [type |-> "undefined", chars |-> <<>>]
Str(chars) == [type |-> "string", chars |-> chars]
StringArray == [type |-> "object", chars |-> <<>>]

\* a value in a condition: undefined and '' are falsy, an array is truthy
IsTruthy(v) == v.type = "object" \/ (v.type = "string" /\ v.chars # <<>>)

\* String.prototype.trim on the characters
RECURSIVE TrimStart(_)
TrimStart(chars) ==
  IF chars # <<>> /\ Head(chars) = " " THEN TrimStart(Tail(chars)) ELSE chars
RECURSIVE TrimEnd(_)
TrimEnd(chars) ==
  IF chars # <<>> /\ chars[Len(chars)] = " "
  THEN TrimEnd(SubSeq(chars, 1, Len(chars) - 1)) ELSE chars
trim(chars) == TrimEnd(TrimStart(chars))

\* String.prototype.toLowerCase on the characters the model uses
LowerChar(c) == CASE c = "O" -> "o" [] c = "P" -> "p" [] OTHER -> c
toLowerCase(chars) == [i \in 1..Len(chars) |-> LowerChar(chars[i])]

\* String.prototype.includes: '' is included in every string
includes(chars, part) ==
  \E i \in 0..(Len(chars) - Len(part)) :
     SubSeq(chars, i + 1, i + Len(part)) = part

All == Str(<<"a", "l", "l">>)
KfCities == {Undefined, Str(<<>>), All, Str(<<"3", "5">>)}
KfKeywords == {Undefined, Str(<<>>), Str(<<" ">>), Str(<<" ", "O", "b">>),
               Str(<<"p">>), StringArray}

\* raw records of the upstream: objetoCompra, orgaoEntidadeRazaoSocial and
\* the day of dataPublicacaoPncp
Obra == [idCompra |-> 1, objetoCompra |-> Str(<<"O", "b", "r", "a">>), orgaoEntidadeRazaoSocial |-> Str(<<"P">>), d |-> 3]
SemObjeto == [idCompra |-> 2, objetoCompra |-> Undefined, orgaoEntidadeRazaoSocial |-> Str(<<"o", "b">>), d |-> 2]
SemTexto == [idCompra |-> 3, objetoCompra |-> Str(<<>>), orgaoEntidadeRazaoSocial |-> Undefined, d |-> 1]

\* what fetchBidsForModality settles to: rejected, null (not ok) or a body
KfPage(resultado) == [kind |-> "ok", resultado |-> resultado, totalRegistros |-> Len(resultado), totalPaginas |-> 1]
KfOutcomes ==
  << {[kind |-> "rejected"], [kind |-> "null"], KfPage(<<Obra>>),
      KfPage(<<SemTexto, Obra>>)},
     {[kind |-> "null"], KfPage(<<SemObjeto>>)} >>

\* results.forEach: the bodies of the fulfilled, non-null results
RECURSIVE AggregateSettled(_)
AggregateSettled(results) ==
  IF results = <<>> THEN [bids |-> <<>>, total |-> 0, maxTotalPages |-> 0]
  ELSE LET rest == AggregateSettled(SubSeq(results, 1, Len(results) - 1))
           data == results[Len(results)]
       IN  IF data.kind = "ok"
           THEN [bids |-> rest.bids \o data.resultado,
                 total |-> rest.total + data.totalRegistros,
                 maxTotalPages |-> IF data.totalPaginas > rest.maxTotalPages
                                   THEN data.totalPaginas
                                   ELSE rest.maxTotalPages]
           ELSE rest

\* keyword && typeof keyword === 'string' && keyword.trim() !== ''
KeywordPresent(keyword) ==
  IsTruthy(keyword) /\ keyword.type = "string" /\ trim(keyword.chars) # <<>>

\* the condition of the if, line 104
FilterWithCity(city, keyword) ==
  IsTruthy(city) /\ city # All /\ KeywordPresent(keyword)

\* the condition of the else if, line 110: && binds tighter than ||
FilterWithoutCity(city, keyword) ==
  ~IsTruthy(city) \/ (city = All /\ KeywordPresent(keyword))

\* the predicate both branches give to allBids.filter
BidMatches(bid, lowercasedKeyword) ==
  \/ /\ IsTruthy(bid.objetoCompra)
     /\ includes(toLowerCase(bid.objetoCompra.chars), lowercasedKeyword)
  \/ /\ IsTruthy(bid.orgaoEntidadeRazaoSocial)
     /\ includes(toLowerCase(bid.orgaoEntidadeRazaoSocial.chars),
                 lowercasedKeyword)

\* lines 100-116: the bids after the conditional filter; keyword.trim()
\* throws a TypeError when keyword is undefined or an array
ConditionalFilter(bids, city, keyword) ==
  IF FilterWithCity(city, keyword) \/ FilterWithoutCity(city, keyword)
  THEN IF keyword.type # "string"
       THEN [threw |-> TRUE, evaluated |-> FALSE, bids |-> <<>>]
       ELSE LET lowercasedKeyword == toLowerCase(trim(keyword.chars))
                Keep(bid) == BidMatches(bid, lowercasedKeyword)
            IN  [threw |-> FALSE, evaluated |-> TRUE,
                 bids |-> SelectSeq(bids, Keep)]
  ELSE [threw |-> FALSE, evaluated |-> FALSE, bids |-> bids]

\* filteredBids.sort by dataPublicacaoPncp, newest first, then mapBidData
NewerFirst(a, b) == a.d > b.d
MappedNewestFirst(bids) ==
  LET sorted == SortSeq(bids, NewerFirst)
  IN  [i \in 1..Len(sorted) |-> sorted[i].idCompra]

NoKfResponse == [status |-> 0, data |-> <<>>, total |-> 0, totalPages |-> 0]

\* lines 80-98: the parallel requests and their aggregation
KfFetchAll ==
  /\ kfPc = "fetch"
  /\ \E first \in KfOutcomes[1], second \in KfOutcomes[2] :
       kfAggregate' = AggregateSettled(<<first, second>>)
  /\ kfPc' = "filter"
  /\ UNCHANGED <<kfCity, kfKeyword, kfEvaluated, kfResponse>>
  /\ UNCHANGED <<pgVars, stVars, sbVars, agVars, hyVars, frVars, exVars, fwVars, dpVars, dlVars, ccVars, rqVars, wkVars, svVars, mcVars, ppVars, p1Vars, tsVars>>

\* lines 100-136: the filter, the sort and the response; the catch block
\* answers a TypeError with status 500
KfFilterAndRespond ==
  /\ kfPc = "filter"
  /\ LET filtered == ConditionalFilter(kfAggregate.bids, kfCity, kfKeyword)
     IN  /\ kfEvaluated' = filtered.evaluated
         /\ kfResponse' =
              IF filtered.threw
              THEN [NoKfResponse EXCEPT !.status = 500]
              ELSE [status |-> 200,
                    data |-> MappedNewestFirst(filtered.bids),
                    total |-> kfAggregate.total,
                    totalPages |-> IF kfAggregate.maxTotalPages > 0
                                   THEN kfAggregate.maxTotalPages ELSE 1]
  /\ kfPc' = "done"
  /\ UNCHANGED <<kfCity, kfKeyword, kfAggregate>>
  /\ UNCHANGED <<pgVars, stVars, sbVars, agVars, hyVars, frVars, exVars, fwVars, dpVars, dlVars, ccVars, rqVars, wkVars, svVars, mcVars, ppVars, p1Vars, tsVars>>

KfStart ==
  /\ kfAggregate = AggregateSettled(<<>>)
  /\ kfEvaluated = FALSE
  /\ kfResponse = NoKfResponse

InitKeywordFilter ==
  /\ kfCity \in KfCities
  /\ kfKeyword \in KfKeywords
  /\ kfPc = "fetch"
  /\ KfStart

IdleKeywordFilter ==
  /\ kfCity = Undefined
  /\ kfKeyword = Undefined
  /\ kfPc = "unused"
  /\ KfStart

NextKeywordFilter == KfFetchAll \/ KfFilterAndRespond

(***************************************************************************)
(* The two-stage parallel handler of src/unnamed/part_009: the first page  *)
(* of every modality, then the later pages of the modalities whose first   *)
(* page names its modality code in config.url.  A record is the pair of    *)
(* the modality code and the page it came with.                            *)
(***************************************************************************)

MAX_PAGES_TO_FETCH_part009 == 5

\* the modalities of the request: modality=6,8
TsModalityCodes == <<"6", "8">>

\* totalPaginas a first page reports
TsTotals == {1, 3, MaxTwoStageTotal}

\* fetchPageForModality settles to a rejection, null or the parsed body;
\* the body is what the upstream sent, with or without a config.url that
\* names the modality
TsFirstOutcomes(code) ==
  {[kind |-> "rejected", totalPaginas |-> 0, config |-> "undefined"],
   [kind |-> "null", totalPaginas |-> 0, config |-> "undefined"]}
  \cup [kind : {"ok"}, totalPaginas : TsTotals, config : {"undefined", code}]

\* new URLSearchParams(result.value.config?.url)
\*   .get('codigoModalidadeContratacao'): null without config.url
ModalityCodeOf(data) == IF data.config = "undefined" THEN "null" ELSE data.config

\* lines 91-98: the requests for pages 2..Math.min(totalPages, 5)
SubsequentFor(data, code) ==
  LET totalPages == data.totalPaginas
      modalityCode == ModalityCodeOf(data)
  IN  IF totalPages > 1 /\ modalityCode # "null"
      THEN [i \in 1..(Min(totalPages, MAX_PAGES_TO_FETCH_part009) - 1) |->
              <<modalityCode, i + 1>>]
      ELSE <<>>

\* line 87: totalAggregatedResults, every page holding one record
RECURSIVE TsTotalRegistros(_)
TsTotalRegistros(initialResults) ==
  IF initialResults = <<>> THEN 0
  ELSE (IF Head(initialResults).kind = "ok"
        THEN Head(initialResults).totalPaginas ELSE 0)
       + TsTotalRegistros(Tail(initialResults))

\* lines 74-99: stage 1
TsStage1 ==
  /\ tsPc = "stage1"
  /\ \E first \in TsFirstOutcomes(TsModalityCodes[1]),
        second \in TsFirstOutcomes(TsModalityCodes[2]) :
       LET initialResults == <<first, second>>
           Bids(i) == IF initialResults[i].kind = "ok"
                      THEN << <<TsModalityCodes[i], 1>> >> ELSE <<>>
           Later(i) == IF initialResults[i].kind = "ok"
                       THEN SubsequentFor(initialResults[i],
                                          TsModalityCodes[i])
                       ELSE <<>>
       IN  /\ tsInitial' = initialResults
           /\ tsAllBids' = Bids(1) \o Bids(2)
           /\ tsSubsequent' = Later(1) \o Later(2)
  /\ tsPc' = "stage2"
  /\ UNCHANGED tsResponse
  /\ UNCHANGED <<pgVars, stVars, sbVars, agVars, hyVars, frVars, exVars, fwVars, dpVars, dlVars, ccVars, rqVars, wkVars, svVars, mcVars, ppVars, p1Vars, kfVars>>

\* lines 101-110: stage 2, the later pages in parallel
TsStage2 ==
  /\ tsPc = "stage2"
  /\ Len(tsSubsequent) > 0
  /\ \E fulfilled \in [1..Len(tsSubsequent) -> BOOLEAN] :
       LET Ok(i) == fulfilled[i]
           got == SelectSeq([i \in 1..Len(tsSubsequent) |->
                               [req |-> tsSubsequent[i], ok |-> Ok(i)]],
                            LAMBDA r : r.ok)
       IN  tsAllBids' = tsAllBids \o [i \in 1..Len(got) |-> got[i].req]
  /\ tsPc' = "respond"
  /\ UNCHANGED <<tsInitial, tsSubsequent, tsResponse>>
  /\ UNCHANGED <<pgVars, stVars, sbVars, agVars, hyVars, frVars, exVars, fwVars, dpVars, dlVars, ccVars, rqVars, wkVars, svVars, mcVars, ppVars, p1Vars, kfVars>>

\* line 102: without later requests stage 2 is skipped
TsSkipStage2 ==
  /\ tsPc = "stage2"
  /\ Len(tsSubsequent) = 0
  /\ tsPc' = "respond"
  /\ UNCHANGED <<tsInitial, tsSubsequent, tsAllBids, tsResponse>>
  /\ UNCHANGED <<pgVars, stVars, sbVars, agVars, hyVars, frVars, exVars, fwVars, dpVars, dlVars, ccVars, rqVars, wkVars, svVars, mcVars, ppVars, p1Vars, kfVars>>

\* lines 112-135: without a keyword, the number of records of page 1 and
\* the number of pages
TsRespond ==
  /\ tsPc = "respond"
  /\ tsResponse' = [status |-> 200,
                    items |-> Min(Len(tsAllBids), itemsPerPage),
                    total |-> TsTotalRegistros(tsInitial),
                    totalPages |-> (Len(tsAllBids) + itemsPerPage - 1)
                                     \div itemsPerPage]
  /\ tsPc' = "done"
  /\ UNCHANGED <<tsInitial, tsSubsequent, tsAllBids>>
  /\ UNCHANGED <<pgVars, stVars, sbVars, agVars, hyVars, frVars, exVars, fwVars, dpVars, dlVars, ccVars, rqVars, wkVars, svVars, mcVars, ppVars, p1Vars, kfVars>>

TsStart ==
  /\ tsInitial = <<>>
  /\ tsSubsequent = <<>>
  /\ tsAllBids = <<>>
  /\ tsResponse = [status |-> 0, items |-> 0, total |-> 0, totalPages |-> 0]

InitTwoStage ==
  /\ tsPc = "stage1"
  /\ TsStart

IdleTwoStage ==
  /\ tsPc = "unused"
  /\ TsStart

NextTwoStage == TsStage1 \/ TsStage2 \/ TsSkipStage2 \/ TsRespond

-----------------------------------------------------------------------------
(* Specifications *)

InitSpecPage ==
  InitPage /\ IdleSort /\ IdleStore /\ IdleAgg /\ IdleHybrid /\ IdleFresh /\ IdleExp /\ IdleFetch /\ IdleDispatch /\ IdleDeadline /\ IdleConc /\ IdleQuery /\ IdleWalk /\ IdleSave /\ IdleMemCache /\ IdlePageParam /\ IdlePage1 /\ IdleKeywordFilter /\ IdleTwoStage

SpecPage == InitSpecPage /\ [][NextPage]_vars

InitSpecSort ==
  InitSort /\ IdlePage /\ IdleStore /\ IdleAgg /\ IdleHybrid /\ IdleFresh /\ IdleExp /\ IdleFetch /\ IdleDispatch /\ IdleDeadline /\ IdleConc /\ IdleQuery /\ IdleWalk /\ IdleSave /\ IdleMemCache /\ IdlePageParam /\ IdlePage1 /\ IdleKeywordFilter /\ IdleTwoStage

SpecSort == InitSpecSort /\ [][NextSort]_vars

InitSpecStore ==
  InitStore /\ IdlePage /\ IdleSort /\ IdleAgg /\ IdleHybrid /\ IdleFresh /\ IdleExp /\ IdleFetch /\ IdleDispatch /\ IdleDeadline /\ IdleConc /\ IdleQuery /\ IdleWalk /\ IdleSave /\ IdleMemCache /\ IdlePageParam /\ IdlePage1 /\ IdleKeywordFilter /\ IdleTwoStage

SpecStore == InitSpecStore /\ [][NextStore]_vars

InitSpecAgg ==
  InitAgg /\ IdlePage /\ IdleSort /\ IdleStore /\ IdleHybrid /\ IdleFresh /\ IdleExp /\ IdleFetch /\ IdleDispatch /\ IdleDeadline /\ IdleConc /\ IdleQuery /\ IdleWalk /\ IdleSave /\ IdleMemCache /\ IdlePageParam /\ IdlePage1 /\ IdleKeywordFilter /\ IdleTwoStage

SpecAgg == InitSpecAgg /\ [][NextAgg]_vars

InitSpecFresh ==
  InitFresh /\ IdlePage /\ IdleSort /\ IdleStore /\ IdleAgg /\ IdleHybrid /\ IdleExp /\ IdleFetch /\ IdleDispatch /\ IdleDeadline /\ IdleConc /\ IdleQuery /\ IdleWalk /\ IdleSave /\ IdleMemCache /\ IdlePageParam /\ IdlePage1 /\ IdleKeywordFilter /\ IdleTwoStage

SpecFresh == InitSpecFresh /\ [][NextFresh]_vars

InitSpecExp ==
  InitExp /\ IdlePage /\ IdleSort /\ IdleStore /\ IdleAgg /\ IdleHybrid /\ IdleFresh /\ IdleFetch /\ IdleDispatch /\ IdleDeadline /\ IdleConc /\ IdleQuery /\ IdleWalk /\ IdleSave /\ IdleMemCache /\ IdlePageParam /\ IdlePage1 /\ IdleKeywordFilter /\ IdleTwoStage

SpecExp == InitSpecExp /\ [][NextExp]_vars

InitSpecFetch ==
  InitFetch /\ IdlePage /\ IdleSort /\ IdleStore /\ IdleAgg /\ IdleHybrid /\ IdleFresh /\ IdleExp /\ IdleDispatch /\ IdleDeadline /\ IdleConc /\ IdleQuery /\ IdleWalk /\ IdleSave /\ IdleMemCache /\ IdlePageParam /\ IdlePage1 /\ IdleKeywordFilter /\ IdleTwoStage

SpecFetch == InitSpecFetch /\ [][NextFetch]_vars

InitSpecDispatch ==
  InitDispatch /\ IdlePage /\ IdleSort /\ IdleStore /\ IdleAgg /\ IdleHybrid /\ IdleFresh /\ IdleExp /\ IdleFetch /\ IdleDeadline /\ IdleConc /\ IdleQuery /\ IdleWalk /\ IdleSave /\ IdleMemCache /\ IdlePageParam /\ IdlePage1 /\ IdleKeywordFilter /\ IdleTwoStage

SpecDispatch == InitSpecDispatch /\ [][NextDispatch]_vars

InitSpecDeadline ==
  InitDeadline /\ IdlePage /\ IdleSort /\ IdleStore /\ IdleHybrid /\ IdleFresh /\ IdleDispatch /\ IdleExp /\ IdleFetch /\ IdleConc /\ IdleQuery /\ IdleWalk /\ IdleSave /\ IdleMemCache /\ IdlePageParam /\ IdlePage1 /\ IdleKeywordFilter /\ IdleTwoStage

SpecDeadline == InitSpecDeadline /\ [][NextDeadline]_vars

InitSpecConc ==
  InitConc /\ IdlePage /\ IdleSort /\ IdleStore /\ IdleAgg /\ IdleHybrid /\ IdleFresh /\ IdleDeadline /\ IdleDispatch /\ IdleExp /\ IdleFetch /\ IdleQuery /\ IdleWalk /\ IdleSave /\ IdleMemCache /\ IdlePageParam /\ IdlePage1 /\ IdleKeywordFilter /\ IdleTwoStage

SpecConc == InitSpecConc /\ [][NextConc]_vars

InitSpecQuery ==
  InitQuery /\ IdlePage /\ IdleSort /\ IdleStore /\ IdleAgg /\ IdleHybrid /\ IdleFresh /\ IdleConc /\ IdleDeadline /\ IdleDispatch /\ IdleExp /\ IdleFetch /\ IdleWalk /\ IdleSave /\ IdleMemCache /\ IdlePageParam /\ IdlePage1 /\ IdleKeywordFilter /\ IdleTwoStage

SpecQuery == InitSpecQuery /\ [][NextQuery]_vars

InitSpecWalk ==
  InitWalk /\ IdlePage /\ IdleSort /\ IdleStore /\ IdleAgg /\ IdleHybrid /\ IdleFresh /\ IdleConc /\ IdleDeadline /\ IdleDispatch /\ IdleExp /\ IdleFetch /\ IdleQuery /\ IdleSave /\ IdleMemCache /\ IdlePageParam /\ IdlePage1 /\ IdleKeywordFilter /\ IdleTwoStage

SpecWalk == InitSpecWalk /\ [][NextWalk]_vars

InitSpecSave ==
  InitSave /\ IdlePage /\ IdleSort /\ IdleStore /\ IdleAgg /\ IdleHybrid /\ IdleFresh /\ IdleConc /\ IdleDeadline /\ IdleDispatch /\ IdleExp /\ IdleFetch /\ IdleQuery /\ IdleWalk /\ IdleMemCache /\ IdlePageParam /\ IdlePage1 /\ IdleKeywordFilter /\ IdleTwoStage

SpecSave == InitSpecSave /\ [][NextSave]_vars

InitSpecMemCache ==
  InitMemCache /\ IdlePage /\ IdleSort /\ IdleStore /\ IdleAgg /\ IdleHybrid /\ IdleFresh /\ IdleConc /\ IdleDeadline /\ IdleDispatch /\ IdleExp /\ IdleFetch /\ IdleQuery /\ IdleSave /\ IdleWalk /\ IdlePageParam /\ IdlePage1 /\ IdleKeywordFilter /\ IdleTwoStage

SpecMemCache == InitSpecMemCache /\ [][NextMemCache]_vars

InitSpecPageParam ==
  InitPageParam /\ IdlePage /\ IdleSort /\ IdleStore /\ IdleAgg /\ IdleHybrid /\ IdleFresh /\ IdleConc /\ IdleDeadline /\ IdleDispatch /\ IdleExp /\ IdleFetch /\ IdleMemCache /\ IdleQuery /\ IdleSave /\ IdleWalk /\ IdlePage1 /\ IdleKeywordFilter /\ IdleTwoStage

SpecPageParam == InitSpecPageParam /\ [][NextPageParam]_vars

InitSpecPage1 ==
  InitPage1 /\ IdlePage /\ IdleSort /\ IdleStore /\ IdleAgg /\ IdleHybrid /\ IdleFresh /\ IdleConc /\ IdleDeadline /\ IdleDispatch /\ IdleExp /\ IdleFetch /\ IdleMemCache /\ IdlePageParam /\ IdleQuery /\ IdleSave /\ IdleWalk /\ IdleKeywordFilter /\ IdleTwoStage

SpecPage1 == InitSpecPage1 /\ [][NextPage1]_vars

InitSpecKeywordFilter ==
  InitKeywordFilter /\ IdlePage /\ IdleSort /\ IdleStore /\ IdleAgg /\ IdleHybrid /\ IdleFresh /\ IdleConc /\ IdleDeadline /\ IdleDispatch /\ IdleExp /\ IdleFetch /\ IdleMemCache /\ IdlePage1 /\ IdlePageParam /\ IdleQuery /\ IdleSave /\ IdleWalk /\ IdleTwoStage

SpecKeywordFilter == InitSpecKeywordFilter /\ [][NextKeywordFilter]_vars

InitSpecTwoStage ==
  InitTwoStage /\ IdlePage /\ IdleSort /\ IdleStore /\ IdleAgg /\ IdleHybrid /\ IdleFresh /\ IdleConc /\ IdleDeadline /\ IdleDispatch /\ IdleExp /\ IdleFetch /\ IdleKeywordFilter /\ IdleMemCache /\ IdlePage1 /\ IdlePageParam /\ IdleQuery /\ IdleSave /\ IdleWalk

SpecTwoStage == InitSpecTwoStage /\ [][NextTwoStage]_vars

Init ==
  InitHybrid /\ IdlePage /\ IdleSort /\ IdleStore /\ IdleAgg /\ IdleFresh /\ IdleExp /\ IdleFetch /\ IdleDispatch /\ IdleDeadline /\ IdleConc /\ IdleQuery /\ IdleWalk /\ IdleSave /\ IdleMemCache /\ IdlePageParam /\ IdlePage1 /\ IdleKeywordFilter /\ IdleTwoStage

Spec == Init /\ [][NextHybrid]_vars

-----------------------------------------------------------------------------
(* Properties *)

\* C1: in the multi-modality aggregation, when the page-1 fetch of exactly
\* one modality code fails (null or throw) while every other fetch
\* succeeds, the query completes with status 200, the aggregated list holds
\* every record the succeeding fetches returned, and exactly one failure is
\* recorded (failedRequests in the cached handler, the catch of
\* searchInPNCP in search-bids.ts).
C1_OneFailureRecorded ==
  LET failed == {c \in DOMAIN agFetched : agFetched[c] \in {"null", "throw"}}
      succeeded == {c \in DOMAIN agFetched : agFetched[c] = "ok"}
      recorded == IF agHandler = "cached" THEN failedRequests
                  ELSE agErrorsLogged
  IN  (/\ agPc = "done"
       /\ Cardinality(failed) = 1
       /\ succeeded # {}
       /\ batchCounts.failures = 0)
        => /\ agResponse.status = 200
           /\ agReturned \subseteq Range(allBids)
           /\ recorded = 1

\* C2: every successful response of the hybrid handler has totalPages >= 1,
\* also when its item list is empty: totalPages = max(1, ceil(total / 10)).
C2_TotalPagesAtLeastOne ==
  (hyPc = "done" /\ hyResponse.status = 200)
    => /\ hyResponse.totalPages >= 1
       /\ hyResponse.totalPages = Max(1, MathCeilDiv(hyResponse.total, 10))

\* C3: for a list of n records and a page p >= 1 the handler
\* returns the records at positions (p-1)*10+1 .. min(p*10, n), in order
\* (none when (p-1)*10 >= n); it reports totalPages = ceil(n/10) when
\* n >= 1, and for n = 0 the hybrid handlers report 0, the cached handler 1;
\* n = 25 and p = 3 give records 21..25 and totalPages = 3.
C3_PageSlice ==
  pgPc = "done" =>
    LET n == Len(pgList)
        first == (pgPageNum - 1) * 10 + 1
        last == IF pgPageNum * 10 < n THEN pgPageNum * 10 ELSE n
        count == IF first > n THEN 0 ELSE last - first + 1
    IN  /\ pgData = [i \in 1..count |-> pgList[first + i - 1]]
        /\ n >= 1 => /\ 10 * (pgTotalPages - 1) < n
                     /\ n <= 10 * pgTotalPages
        /\ n = 0 => pgTotalPages = IF pgHandler = "cached" THEN 1 ELSE 0
        /\ (n = 25 /\ pgPageNum = 3)
             => pgData = <<21, 22, 23, 24, 25>> /\ pgTotalPages = 3

\* C3, witness: page 3 of 25 records was served, with 5 items
C3_PageThreeOfTwentyFive ==
  /\ pgPc = "done"
  /\ Len(pgList) = 25
  /\ pgPageNum = 3
  /\ Len(pgData) = 5

\* C3, stronger form: the slice as above, and totalPages = ceil(n/10) for every n
C3_AsStated ==
  pgPc = "done" =>
    LET n == Len(pgList)
        first == (pgPageNum - 1) * 10 + 1
        last == IF pgPageNum * 10 < n THEN pgPageNum * 10 ELSE n
        count == IF first > n THEN 0 ELSE last - first + 1
    IN  /\ pgData = [i \in 1..count |-> pgList[first + i - 1]]
        /\ 10 * (pgTotalPages - 1) < n
        /\ n <= 10 * pgTotalPages

\* C4: for a fixed query, an unchanged store and an upstream that adds
\* nothing, the store read of a request for a page within the matching
\* set's pages returns every stored record matching the query's filter, and
\* the pages 1..totalPages served are pairwise disjoint and together hold
\* every matching record exactly once.
C4_PagesCoverMatching ==
  LET matching == Matching(hyLicitacoes, hyQuery.keyword)
      pages == 1..hyServed[1].totalPages
      Items(p) == Range(hyServed[p].data)
  IN  /\ (/\ hyPc = "done"
          /\ hyTrace.readOk
          /\ ~hyTrace.wrote
          /\ hyPageNum <= MathCeilDiv(Cardinality(matching), 10))
           => Range(supabaseResults) = matching
      /\ (/\ hyServed[1].served
          /\ pages \subseteq DOMAIN hyServed
          /\ \A p \in pages : hyServed[p].served)
           => /\ \A p \in pages, q \in pages :
                   p # q => Items(p) \cap Items(q) = {}
              /\ \A p \in pages :
                   Cardinality(Items(p)) = Len(hyServed[p].data)
              /\ UNION {Items(p) : p \in pages} = matching

\* C5: no response holds two items with the same identifier (id_unico).
C5_NoDuplicateIds ==
  hyPc = "done" =>
    \A i \in 1..Len(hyResponse.data), j \in 1..Len(hyResponse.data) :
      i # j => hyResponse.data[i] # hyResponse.data[j]

\* C6: the sorted list is the input list ordered by publication date
\* descending, every record with a missing date (null or absent) after all
\* dated records, records with equal keys in their input order; the dates
\* [day 1, missing, day 3] come out as [day 3, day 1, missing].
C6_SortedMissingLast ==
  stPc = "done" =>
    LET Dates(list) == [i \in 1..Len(list) |-> list[i].d]
    IN  /\ Len(stOut) = Len(stList)
        /\ Range(stOut) = Range(stList)
        /\ \A i \in 1..Len(stOut), j \in 1..Len(stOut) :
             i < j =>
               /\ ~(IsMissing(stOut[i].d) /\ ~IsMissing(stOut[j].d))
               /\ (~IsMissing(stOut[i].d) /\ ~IsMissing(stOut[j].d))
                    => stOut[i].d.t >= stOut[j].d.t
               /\ (\/ IsMissing(stOut[i].d) /\ IsMissing(stOut[j].d)
                   \/ stOut[i].d = stOut[j].d)
                    => stOut[i].pos < stOut[j].pos
        /\ \A missing \in {Absent, Null} :
             Dates(stList) = <<DateOn(1), missing, DateOn(3)>>
               => Dates(stOut) = <<DateOn(3), DateOn(1), missing>>

C8_FreshnessRecorded ==
  (/\ hyPc \in {"respond", "done"}
   /\ precisaAtualizar
   /\ hyTrace.fetches > 0)
    => ~needsRefresh(cache_buscas, clock, TRUE)

\* C9: the upstream aggregation runs for a request if and only
\* if needsRefresh reported true or the store read returned fewer than 5
\* records; a request with a fresh key and at least 5 records read makes no
\* upstream request and no store write.
C9_RefreshGuard ==
  hyPc \in {"respond", "done"} =>
    /\ hyTrace.fetches > 0
         <=> (precisaAtualizar \/ Len(supabaseResults) < 5)
    /\ (~precisaAtualizar /\ Len(supabaseResults) >= 5)
         => (hyTrace.fetches = 0 /\ ~hyTrace.wrote)

\* C9, witness: a request with a fresh key and fewer than 5 records read
\* was answered after fetching from the upstream
C9_FreshButFewRows ==
  /\ hyPc = "done"
  /\ ~precisaAtualizar
  /\ Len(supabaseResults) < 5
  /\ hyTrace.fetches > 0

\* C9, stronger form: the aggregation runs if and only if needsRefresh reported
\* true; a fresh key means no upstream request and no store write
C9_AsStated ==
  hyPc \in {"respond", "done"} =>
    /\ hyTrace.fetches > 0 <=> precisaAtualizar
    /\ ~precisaAtualizar => (hyTrace.fetches = 0 /\ ~hyTrace.wrote)

\* C10: of two consecutive needsRefresh calls for a key that
\* both read cache_buscas, with no refresh recorded between them, true is
\* followed by true, and false is followed by false when the second call is
\* within 6 hours of the recorded refresh; after updateCacheRecord recorded
\* a refresh, the next call that reads the row within 6 hours returns false.
C10_FreshnessAnswers ==
  LET prev == frChecks.prev
      last == frChecks.last
  IN  /\ (/\ prev.called /\ prev.readOk
          /\ last.called /\ last.readOk
          /\ ~frChecks.between)
           => /\ prev.answer => last.answer
              /\ (~prev.answer /\ last.inWindow) => ~last.answer
      /\ (last.called /\ frChecks.between /\ last.inWindow) => ~last.answer

\* C10, witness: a refresh was recorded, hours passed, and the next call
\* within the window returned false
C10_FreshAfterRecord ==
  /\ frChecks.last.called
  /\ frChecks.between
  /\ frChecks.last.inWindow
  /\ ~frChecks.last.answer
  /\ frNow > frRow.ultima_atualizacao

\* C10, stronger form, for calls that read cache_buscas: two consecutive calls
\* with no refresh recorded between them return the same boolean; after a
\* recorded refresh the next call within the window returns false
C10_AsStated ==
  LET prev == frChecks.prev
      last == frChecks.last
  IN  /\ (/\ prev.called /\ prev.readOk
          /\ last.called /\ last.readOk
          /\ ~frChecks.between)
           => prev.answer = last.answer
      /\ (last.called /\ frChecks.between /\ last.inWindow) => ~last.answer

\* C11: a request of the hybrid handler whose read of the persistent store
\* failed (searchInSupabase got an error) is not answered with status 200:
\* a failed read ends in an error response.
C11_ReadFailureEscalated ==
  (hyPc = "done" /\ ~hyTrace.readOk) => hyResponse.status # 200

\* C12: when a first-page fetch of a modality or a fetch of a further page
\* failed during the aggregation (null or throw), the response carries a
\* warning that marks its total as an estimate.
C12_FailureCarriesWarning ==
  LET failedFirst == \E c \in DOMAIN agFetched :
                       agFetched[c] \in {"null", "throw"}
      failedLater == batchCounts.failures > 0
  IN  (agPc = "done" /\ (failedFirst \/ failedLater))
        => agResponse.warning

\* C13: the expiration date of a formatted row comes from the first date the
\* raw record has, in the order close date (30 days later), open date (60
\* days later), publication date (90 days later), else today (90 days
\* later); a date further down the order never contributes.  The callback
\* throws exactly when that first date does not parse.
C13_FirstAvailableDate ==
  LET close == exBid.dataEncerramentoProposta
      open == exBid.dataAberturaProposta
      pub == exBid.dataPublicacaoPncp
      base == IF Truthy(close) THEN close
              ELSE IF Truthy(open) THEN open
              ELSE IF Truthy(pub) THEN pub ELSE exHoje
      days == IF Truthy(close) THEN 30
              ELSE IF Truthy(open) THEN 60 ELSE 90
      exp == exRow.data_expiracao
  IN  exPc = "done"
        => /\ exRow.thrown <=> base.kind = "invalid"
           /\ ~exRow.thrown
                => /\ exp.kind = "date"
                   /\ exp.d <= DaysInMonth(exp.y, exp.m)
                   /\ MakeDay(exp.y, exp.m, exp.d)
                        - MakeDay(base.y, base.m, base.d) = days

\* C13, witness: a record without a close date, with an open date and a
\* different publication date, was formatted
C13_OpenDateBeforePublication ==
  /\ exPc = "done"
  /\ ~Truthy(exBid.dataEncerramentoProposta)
  /\ exBid.dataAberturaProposta = Ymd(2024, 2, 10)
  /\ exBid.dataPublicacaoPncp = Ymd(2024, 1, 1)
  /\ exRow.data_expiracao = Ymd(2024, 4, 10)

\* C14: a record whose only date is the publication date 2024-01-01 is
\* stored with the expiration date 2024-03-31, ninety days later (2024 is a
\* leap year); with a close date as well, the expiration date is the close
\* date plus 30 days.
C14_NinetyDaysAfterPublication ==
  LET close == exBid.dataEncerramentoProposta
      onlyPublication == /\ ~Truthy(close)
                         /\ ~Truthy(exBid.dataAberturaProposta)
                         /\ exBid.dataPublicacaoPncp = Ymd(2024, 1, 1)
  IN  exPc = "done"
        => /\ onlyPublication => exRow.data_expiracao = Ymd(2024, 3, 31)
           /\ (exBid.dataPublicacaoPncp = Ymd(2024, 1, 1)
                 /\ close = Ymd(2024, 2, 10))
                => exRow.data_expiracao = Ymd(2024, 3, 11)
           /\ (exBid.dataPublicacaoPncp = Ymd(2024, 1, 1)
                 /\ close = Ymd(2024, 12, 15))
                => exRow.data_expiracao = Ymd(2025, 1, 14)

\* C14, witness: the record with only the publication date 2024-01-01 was
\* formatted
C14_OnlyPublicationDate ==
  /\ exPc = "done"
  /\ exBid = [dataEncerramentoProposta |-> FieldNull,
              dataAberturaProposta |-> FieldNull,
              dataPublicacaoPncp |-> Ymd(2024, 1, 1)]
  /\ ~exRow.thrown

\* C14, with the date of the specification: the record with only the
\* publication date 2024-01-01 is stored with the expiration date 2024-04-01
C14_AsStated ==
  (/\ exPc = "done"
   /\ ~Truthy(exBid.dataEncerramentoProposta)
   /\ ~Truthy(exBid.dataAberturaProposta)
   /\ exBid.dataPublicacaoPncp = Ymd(2024, 1, 1))
    => exRow.data_expiracao = Ymd(2024, 4, 1)

\* C15: when the upstream answers the first request of a fetchWithRetry call
\* with 204 (no content), the call returns the empty page { data: [],
\* totalRegistros: 0, totalPaginas: 0 } after that one request.
C15_NoContentIsEmptyPage ==
  (/\ fwPc \in {"attempt", "done"}
   /\ Len(fwRequests) >= 1
   /\ fwRequests[1].response = "204")
    => /\ fwPc = "done"
       /\ Len(fwRequests) = 1
       /\ fwResult = NoContent

C18_MinimumDelay ==
  \A k \in 1..Len(fwRequests) :
    fwRequests[k].pause >= DELAY_BETWEEN_REQUESTS

\* C17: during one query at most 5 upstream requests are in flight at the
\* same time, in every handler.
C17_BoundedInFlight == dpInFlight <= 5

\* C19: once the deadline of the query has passed, the handler awaits no
\* further modality or page fetch: the fetches outstanding are abandoned
\* and it answers with the records collected so far.
C19_NoFetchAfterDeadline == [][dlExpired => ~AwaitsFetch]_vars

C21_SameConflictPolicy ==
  \A bid \in RawRecords :
    bid.id \in StoredIds(sbTable)
      => LET bySearchBids == SaveToSupabase_searchBids(sbTable, <<bid>>, TRUE)
             byPart015 == SaveToSupabase_part015(sbTable, <<bid>>, TRUE)
             byHybrid == SaveToSupabase_hybrid(sbTable, <<bid>>, <<TRUE>>)
         IN  /\ bySearchBids.table = byPart015.table
             /\ byPart015.table = byHybrid.table


\* C22: with a keyword, every record of the answer is one that the store
\* read selects with the same keyword once the record is stored, so the
\* final filter and the store read keep and drop the same records.
C22_SameKeywordPredicate ==
  (hyPc = "done" /\ hyQuery.keyword)
    => \A i \in 1..Len(hyResponse.data) :
         hyResponse.data[i]
           \in Matching(FormatRows(<<Raw(hyResponse.data[i])>>), TRUE)


\* C23: the codes queried upstream are exactly the codes the request
\* names when it names some, and exactly the handler's full list of known
\* codes when it names none or "all".
C23_QueriedCodesAsRequested ==
  rqPc = "selected"
    => Range(rqCodes) =
         IF NoModality(rqQuery)
         THEN IF rqHandler = "part015"
              THEN Range(ALL_MODALITY_CODES_part015)
              ELSE Range(ALL_MODALITY_CODES)
         ELSE Range(rqQuery.modality)


\* two requests name the same geography and keyword
SameGeographyAndKeyword ==
  /\ StrOr(rqQuery.uf, "all") = StrOr(rqOther.uf, "all")
  /\ StrOr(rqQuery.city, "all") = StrOr(rqOther.city, "all")
  /\ StrOr(rqQuery.keyword, "none") = StrOr(rqOther.keyword, "none")

\* C24 (as amended): the cache key depends on geography, keyword and the
\* modality parameter: two requests have the same key exactly when they
\* agree on geography and keyword and their modality parameters are equal
\* or are both absent or "all".
C24_KeyIncludesModality ==
  rqKeys # <<>>
    => (rqKeys[1] = rqKeys[2]
          <=> /\ SameGeographyAndKeyword
              /\ \/ rqQuery.modality = rqOther.modality
                 \/ NoModality(rqQuery) /\ NoModality(rqOther))

\* C24, witness: two requests that differ only in their explicit modality
\* selection have received different keys
C24_ModalitySeparatesKeys ==
  /\ rqKeys # <<>>
  /\ SameGeographyAndKeyword
  /\ rqQuery.modality = <<"6">>
  /\ rqOther.modality = <<"6", "8">>
  /\ rqKeys[1] # rqKeys[2]

\* C24 as stated: requests that differ only in modality share one key
C24_AsStated ==
  (rqKeys # <<>> /\ SameGeographyAndKeyword) => rqKeys[1] = rqKeys[2]


\* C25: when searchInPNCP of part_015 returns, every record of every page
\* that was fetched successfully is in the aggregate, whatever pages
\* failed.
C25_FetchedPagesRetained ==
  wkPc = "done" => wkAllBids = wkFetched


\* C27: for one modality fetchAllPagesForModality requests page 1 first
\* and then the pages 2, 3, ... in order; page i is requested only when
\* page i - 1 returned records and reported at least i pages; a first page
\* that reports 1, 0 or no totalPaginas is the only request; and no page
\* above 10 is requested, whatever totalPaginas is reported.
C27_PageWalkBounded ==
  /\ \A i \in 1..Len(wkRequested) : wkRequested[i] = i
  /\ Len(wkRequested) <= 10
  /\ \A i \in 2..Len(wkRequested) :
       /\ HasRecords(wkReported[i - 1])
       /\ i <= Min(wkReported[i - 1].totalPaginas, 10)
  /\ (wkRequested # <<>> /\ wkReported[1].totalPaginas <= 1)
       => wkRequested = <<1>>

\* C27, witness: ten pages were requested and the tenth still reported
\* more pages than the cap
C27_StoppedAtCap ==
  /\ wkRequested = <<1, 2, 3, 4, 5, 6, 7, 8, 9, 10>>
  /\ HasRecords(wkReported[10])
  /\ wkReported[10].totalPaginas > 10
  /\ wkPage = 1


\* C26: whatever the pages of the upstream answer, malformed bodies
\* included, the cached handler of part_007 ends with a successful
\* response.
C26_MalformedPageNeverFails ==
  (agHandler = "cached" /\ agPc = "done") => agResponse.status = 200


\* rows carried by the writes the store accepted
RECURSIVE RowsAccepted(_)
RowsAccepted(writes) ==
  IF writes = <<>> THEN 0
  ELSE (IF Head(writes).ok THEN Head(writes).rows ELSE 0)
         + RowsAccepted(Tail(writes))

\* C28: every write of saveToSupabase carries at most 50 records, and on
\* return saved + errors is the number of input records and saved is the
\* number of records in the writes that succeeded.
C28_BatchesOfFifty ==
  /\ \A k \in 1..Len(svWrites) : svWrites[k].rows <= batchSize
  /\ svPc = "returned"
       => /\ svSaved + svErrors = svLength
          /\ svSaved = RowsAccepted(svWrites)

\* the same for the batching variant alone
BatchesOfFiftyHybrid == svHandler = "hybrid" => C28_BatchesOfFifty


\* the sum of the totalRegistros reported on page 1 by the modalities in
\* codes
RECURSIVE SumReported(_)
SumReported(codes) ==
  IF codes = {} THEN 0
  ELSE LET c == CHOOSE x \in codes : TRUE
       IN  agReported[c] + SumReported(codes \ {c})

\* C29: the total of the cached handler's response is the sum of the
\* totalRegistros reported on page 1 by the modalities whose first page
\* was fetched; a modality whose first page failed adds 0 and the later
\* pages add nothing.
C29_TotalIsSumOfFirstPages ==
  (agHandler = "cached" /\ agPc = "done" /\ agResponse.status = 200)
    => agResponse.total =
         SumReported({c \in DOMAIN agFetched : agFetched[c] = "ok"})

\* C29, witness: one modality failed on page 1, the other reported two
\* records and its second page was fetched, and the response is out
C29_FailedAndFetchedLaterPage ==
  /\ agHandler = "cached"
  /\ agPc = "done"
  /\ agResponse.status = 200
  /\ \E c \in DOMAIN agFetched : agFetched[c] \in {"null", "throw"}
  /\ \E c \in DOMAIN agFetched : agFetched[c] = "ok" /\ agReported[c] = 2
  /\ batchCounts.successes > 0
  /\ agResponse.total = 2


\* C30 (as amended): needsRefresh returns true exactly when it read no
\* freshness record (none is stored, or the read failed) or the stored
\* ultima_atualizacao is more than 6 hours before now; it returns false
\* when it read a record whose age is at most 6 hours.
C30_TrueIffNothingReadOrStale ==
  frChecks.last.called
    => (frChecks.last.answer
          <=> (~frChecks.last.readOk \/ ~frChecks.last.fresh))

\* C30, witness: a record exactly six hours old was read and the call
\* returned false
C30_SixHoursIsFresh ==
  /\ frChecks.last.called
  /\ frChecks.last.readOk
  /\ frChecks.last.fresh
  /\ ~frChecks.last.answer
  /\ ~frChecks.since
  /\ frRow.present
  /\ frNow - frRow.ultima_atualizacao = 6

\* C30 as stated: true exactly when no record is stored or the stored one
\* is older than 6 hours
C30_AsStated ==
  frChecks.last.called
    => (frChecks.last.answer <=> ~frChecks.last.fresh)


\* C31: a refresh cycle whose saveToSupabase saved no record (every upsert
\* batch failed) writes no freshness record: after it the key's record is
\* not the one of this cycle.
C31_NoFreshnessWithoutPersisting ==
  (hyPc \in {"respond", "done"} /\ hyTrace.wrote /\ hyTrace.saved = 0)
    => cache_buscas # updateCacheRecord(clock)


\* C32: the in-memory result cache never holds more than 100 entries.
C32_AtMostHundredEntries ==
  Len(mcCache) <= CacheLimit

\* C33: getCachedResult returns no entry that is CACHE_TTL old or older:
\* such an entry is deleted by the lookup and the lookup is a miss; an
\* entry younger than CACHE_TTL is returned and stays in the cache.
C33_ExpiredNeverReturned ==
  LET i == Position(mcCache, mcReq.key)
  IN  (mcLast.kind # "none" /\ mcLast.present /\ mcLast.fetched = <<>>)
        => IF mcLast.age >= CACHE_TTL
           THEN mcLast.kind = "miss" /\ i = 0
           ELSE /\ mcLast.kind = "hit"
                /\ i # 0
                /\ mcLast.response = HitResponse(mcCache[i].data, mcReq.page)

\* C33, witness: an entry exactly CACHE_TTL old was looked up, reported as
\* a miss and deleted
C33_ExpiredAtTen ==
  /\ mcLast.kind = "miss"
  /\ mcLast.present
  /\ mcLast.age = CACHE_TTL
  /\ mcLast.fetched = <<>>
  /\ Position(mcCache, mcReq.key) = 0

\* C34: a response served from the cache has the data, total, totalPages
\* and warning of the response that the miss which stored the entry
\* returned for the same request.
C34_HitEqualsMiss ==
  mcLast.kind = "hit"
    => /\ mcLast.response.data = mcLast.original.data
       /\ mcLast.response.total = mcLast.original.total
       /\ mcLast.response.totalPages = mcLast.original.totalPages
       /\ mcLast.response.warning = mcLast.original.warning
       /\ mcLast.response.cached /\ ~mcLast.original.cached

\* C34, witness: a request was answered from an entry that an earlier miss
\* of the run stored with eleven bids and a warning
C34_HitAfterMiss ==
  /\ mcLast.kind = "hit"
  /\ mcLast.response.total = 25
  /\ mcLast.response.warning
  /\ Len(mcLast.response.data) = 10

\* C35: computing the cache key leaves the shared ALL_MODALITY_CODES and
\* the request's modality list as they were: the modalities are fetched in
\* the order the request gave.
C35_KeyLeavesModalitiesAlone ==
  /\ mcALL = ALL_MODALITY_CODES
  /\ mcLast.fetched # <<>> => mcLast.fetched = mcReq.requested


\* C36: a request whose page is zero, negative or not a number is answered
\* with no items, whatever the size of the result list.
C36_InvalidPageNoItems ==
  (ppPc = "done" /\ ppPage \in {"0", "-1", "-2", "abc", ""})
    => ppData = <<>>


\* C37: in the handler of part_015 a request for a page above 1 neither
\* asks the upstream nor writes to the store; the upstream is asked only on
\* page 1 when the store read returned fewer than 20 records; and the
\* source field is 'hybrid' only when the upstream was asked.
C37_HybridOnlyWhenConsulted ==
  p1Pc = "done"
    => /\ p1PageNum > 1 => (~p1Consulted /\ ~p1Wrote)
       /\ p1Consulted => (p1PageNum = 1 /\ p1FirstRead < 20)
       /\ p1Source = "hybrid" => p1Consulted


\* C38: in the handler of part_010 a query without a keyword is answered
\* with status 200 and all the aggregated bids, whether or not a city is
\* selected, and the keyword filter is evaluated only when the keyword is
\* a non-empty string.
C38_NoKeywordUnfiltered ==
  kfPc = "done"
    => /\ ~IsTruthy(kfKeyword)
            => /\ kfResponse.status = 200
               /\ kfResponse.data = MappedNewestFirst(kfAggregate.bids)
       /\ kfEvaluated => KeywordPresent(kfKeyword)


\* C39: in the two-stage handler of part_009, every modality whose first
\* page succeeded with totalPaginas > 1 has its pages 2..min(totalPaginas,
\* 5) requested, and the records of the pages that arrive are in the
\* aggregate.
C39_LaterPagesRequested ==
  tsPc \in {"stage2", "respond", "done"}
    => \A i \in 1..Len(tsInitial) :
         (tsInitial[i].kind = "ok" /\ tsInitial[i].totalPaginas > 1)
           => \A p \in 2..Min(tsInitial[i].totalPaginas,
                              MAX_PAGES_TO_FETCH_part009) :
                \E k \in 1..Len(tsSubsequent) :
                   tsSubsequent[k] = <<TsModalityCodes[i], p>>

=============
